---- MODULE Spec2Model ----
(***************************************************************************)
(* Model of the book-analyzer analysis pipeline: the /api/analyze route    *)
(* (cache check, text fetch, model call, JSON recovery, transformation,    *)
(* cache store), GutenbergService.getBookText, CacheService, the cache     *)
(* route, Agent.chat and the /api/chat route.                              *)
(*                                                                         *)
(* JavaScript values are tagged records; every tag has its own payload     *)
(* field, so two values of different types are never compared payload to   *)
(* payload.  Strings are sequences of chunks (<<>> is the empty string).   *)
(* Book texts are run-length encoded: a sequence of runs [c, n] of n       *)
(* characters of class c ("a" a word character, " " whitespace, "." a      *)
(* dot), adjacent runs having different classes.                           *)
(***************************************************************************)
EXTENDS Integers, Sequences, FiniteSets, TLC

\* ------------------------------------------------------------------ bounds

\* Longest raw model response (in tokens) enumerated by SpecNorm.
MaxRawLen == 5
\* Most character entries in an enumerated model payload.
MaxChars == 2
\* Largest value of the clock that stamps results.
MaxClock == 1

\* ------------------------------------------------------- JavaScript values

Undef == [t |-> "undefined"]
Null == [t |-> "null"]
Str(s) == [t |-> "string", s |-> s]
Num(n) == [t |-> "number", n |-> n]
Bool(b) == [t |-> "boolean", b |-> b]
Arr(a) == [t |-> "array", a |-> a]
Obj(o) == [t |-> "object", o |-> o]
\* A book text (a JavaScript string, kept run-length encoded).
Text(runs) == [t |-> "text", runs |-> runs]
\* The string new Date().toISOString() gives at clock reading ms.
IsoString(ms) == [t |-> "isostring", ms |-> ms]
\* A thrown Error with its message (a sequence of chunks).
Throw(msg) == [t |-> "throw", msg |-> msg]
\* A thrown value that is no Error (throw "text", a rejection with a
\* string).
ThrowValue(v) == [t |-> "throw", value |-> v]

IsThrow(v) == v.t = "throw"
\* error instanceof Error, for a thrown value.
IsError(v) == v.t = "throw" /\ "msg" \in DOMAIN v
IsNullish(v) == v.t \in {"undefined", "null"}

\* JavaScript truthiness (the test of `x || y`, `if (x)`, `!x`).
Truthy(v) ==
  CASE v.t \in {"undefined", "null"} -> FALSE
    [] v.t = "string" -> v.s /= <<>>
    [] v.t = "number" -> v.n /= 0
    [] v.t = "boolean" -> v.b
    [] v.t = "text" -> v.runs /= <<>>
    [] OTHER -> TRUE

\* x || y
OrElse(x, y) == IF Truthy(x) THEN x ELSE y

\* v.k for a non-nullish v: an own property of an object, undefined on a
\* primitive or an array (no key used here is a built-in property).
Get(v, k) ==
  IF v.t = "object" /\ k \in DOMAIN v.o THEN v.o[k] ELSE Undef

\* The object with the members of o whose keys are not in ks.
Without(o, ks) == [k \in (DOMAIN o) \ ks |-> o[k]]

\* JSON.parse(JSON.stringify(v)): what a value becomes once it has been
\* written as a response body or handed to the store: an object member
\* whose value is undefined is dropped, an undefined array element
\* becomes null.
RECURSIVE Json(_)
Json(v) ==
  CASE v.t = "array" ->
         Arr([i \in 1..Len(v.a) |->
                IF v.a[i].t = "undefined" THEN Null ELSE Json(v.a[i])])
    [] v.t = "object" ->
         Obj([k \in {x \in DOMAIN v.o : v.o[x].t /= "undefined"} |->
                Json(v.o[k])])
    [] OTHER -> v

\* -------------------------------------------------------------- book texts

IsSpace(c) == c = " "

RECURSIVE TextLen(_)
TextLen(runs) ==
  IF runs = <<>> THEN 0 ELSE Head(runs).n + TextLen(Tail(runs))

\* Adjacent runs of one class merged.
RECURSIVE Canon(_)
Canon(runs) ==
  IF Len(runs) < 2 THEN runs
  ELSE IF runs[1].c = runs[2].c
       THEN Canon(<<[c |-> runs[1].c, n |-> runs[1].n + runs[2].n]>>
                  \o SubSeq(runs, 3, Len(runs)))
       ELSE <<runs[1]>> \o Canon(Tail(runs))

\* text.substring(0, k)
RECURSIVE Substring0(_, _)
Substring0(runs, k) ==
  IF runs = <<>> \/ k <= 0 THEN <<>>
  ELSE IF Head(runs).n >= k THEN <<[c |-> Head(runs).c, n |-> k]>>
       ELSE <<Head(runs)>> \o Substring0(Tail(runs), k - Head(runs).n)

\* text.split(/\s+/).length: one more than the number of maximal
\* whitespace runs (a leading or trailing run yields an empty piece).
SplitLength(runs) ==
  Cardinality({i \in 1..Len(runs) : IsSpace(runs[i].c)}) + 1

\* ------------------------------------------------- raw model responses

\* A raw response is a sequence of tokens: "F" a code-fence marker (three
\* backticks); "J" the language tag json; "W" a whitespace character that
\* JSON accepts too (space, tab, line feed, carriage return); "N" a
\* whitespace character that trim and \s accept and JSON does not (a
\* no-break space); "P" a prose letter that is no part of the tag; "{"
\* and "}"; and "M" the text of the members of the JSON object `payload`
\* as JSON.stringify writes them, without the outer braces. The braces of
\* the objects nested in the payload lie inside "M". The payloads hold no
\* object as the value of a top-level member and no brace, backtick or
\* whitespace at the ends of the members text, so "M" starts with a
\* quote and does not end with a brace; the members text of a payload
\* without members is empty.
RawTokens == {"F", "J", "W", "N", "P", "{", "}", "M"}
\* The whitespace of trim and of \s.
WhiteSpace == {"W", "N"}

StartsWith(s, p) == Len(s) >= Len(p) /\ SubSeq(s, 1, Len(p)) = p
EndsWith(s, p) ==
  Len(s) >= Len(p) /\ SubSeq(s, Len(s) - Len(p) + 1, Len(s)) = p
Drop(s, k) == SubSeq(s, k + 1, Len(s))
DropLast(s, k) == SubSeq(s, 1, Len(s) - k)

RECURSIVE StripLeadingWs(_)
StripLeadingWs(s) ==
  IF s /= <<>> /\ Head(s) \in WhiteSpace THEN StripLeadingWs(Tail(s)) ELSE s
RECURSIVE StripTrailingWs(_)
StripTrailingWs(s) ==
  IF s /= <<>> /\ s[Len(s)] \in WhiteSpace
  THEN StripTrailingWs(DropLast(s, 1)) ELSE s
\* String.prototype.trim
TrimRaw(s) == StripTrailingWs(StripLeadingWs(s))

EmptyObject == Obj([k \in {} |-> Undef])

\* The raw response as the text it is: a payload without members has an
\* empty members text, which leaves no trace in the response.
Effective(raw, payload) ==
  IF DOMAIN payload.o = {} THEN SelectSeq(raw, LAMBDA c : c /= "M")
  ELSE raw

\* The outermost objects written in the text of a value, in their order.
RECURSIVE OuterObjects(_)
OuterObjects(v) ==
  IF v.t = "object" THEN <<v>>
  ELSE IF v.t = "array" /\ v.a /= <<>>
  THEN OuterObjects(Head(v.a)) \o OuterObjects(Arr(Tail(v.a)))
  ELSE <<>>
\* The outermost objects written in the members text of the payload.
InnerSlots(payload) ==
  UNION {{<<k, i>> : i \in 1..Len(OuterObjects(payload.o[k]))} :
           k \in DOMAIN payload.o}
\* The members text holds a brace.
HasBraces(payload) == InnerSlots(payload) /= {}
\* JSON.parse of the members text from its first "{" to its last "}": the
\* nested object when it is the only outermost one, a SyntaxError when
\* the text runs over several.
InnerParse(payload) ==
  IF Cardinality(InnerSlots(payload)) = 1
  THEN LET slot == CHOOSE x \in InnerSlots(payload) : TRUE
       IN OuterObjects(payload.o[slot[1]])[slot[2]]
  ELSE Throw(<<"SyntaxError">>)

\* JSON.parse of a text: the object of the payload when the text is its
\* members once between two braces, the empty object when the braces
\* hold only whitespace, the nested object for "Mi", a SyntaxError
\* otherwise. JSON whitespace around the text is accepted.
JsonParse(s, payload) ==
  LET text == Effective(s, payload)
      inner == {i \in 1..Len(text) : text[i] /= "W"}
      lo == CHOOSE i \in inner : \A j \in inner : i <= j
      hi == CHOOSE i \in inner : \A j \in inner : j <= i
      body == IF inner = {} THEN <<>> ELSE SubSeq(text, lo, hi)
      n == Len(body)
  IN IF body = <<"Mi">> THEN InnerParse(payload)
     ELSE IF n >= 2 /\ body[1] = "{" /\ body[n] = "}"
        /\ (\A i \in 2..(n - 1) : body[i] \in {"W", "M"})
        /\ Cardinality({k \in 2..(n - 1) : body[k] = "M"}) <= 1
     THEN IF \E i \in 2..(n - 1) : body[i] = "M" THEN payload
          ELSE EmptyObject
     ELSE Throw(<<"SyntaxError">>)

\* route lines 59-70: trim, then strip a leading ```json, a leading ```
\* and a trailing ```, each with the whitespace next to it.
StripJsonFence(s) ==
  IF StartsWith(s, <<"F", "J">>) THEN StripLeadingWs(Drop(s, 2)) ELSE s
StripLeadingFence(s) ==
  IF StartsWith(s, <<"F">>) THEN StripLeadingWs(Drop(s, 1)) ELSE s
StripTrailingFence(s) ==
  IF EndsWith(s, <<"F">>) THEN StripTrailingWs(DropLast(s, 1)) ELSE s
CleanResponse(raw) ==
  StripTrailingFence(StripLeadingFence(StripJsonFence(TrimRaw(raw))))

\* route lines 57-82: the direct attempt. The test of lines 80-82 never
\* fails: a text between braces parses to an object or not at all.
DirectParse(raw, payload) ==
  LET cleaned == CleanResponse(Effective(raw, payload))
  IN IF ~StartsWith(cleaned, <<"{">>) \/ ~EndsWith(cleaned, <<"}">>)
     THEN Throw(<<"Response does not appear to be valid JSON object">>)
     ELSE JsonParse(cleaned, payload)

\* The tokens of a text that hold a "{", and those that hold a "}".
Opens(text, payload) ==
  {i \in 1..Len(text) :
     text[i] = "{" \/ (text[i] = "M" /\ HasBraces(payload))}
Closes(text, payload) ==
  {i \in 1..Len(text) :
     text[i] = "}" \/ (text[i] = "M" /\ HasBraces(payload))}
\* The text from token `first` to token `last`, both holding a brace;
\* a members text at either end is cut at its brace: "Mi" is the members
\* text from its first "{" to its last "}", "Mo" from its first "{" to
\* its end, "Mc" from its start to its last "}".
Cut(text, first, last) ==
  IF first = last THEN <<"Mi">>
  ELSE [i \in 1..(last - first + 1) |->
          IF i = 1 /\ text[first] = "M" THEN "Mo"
          ELSE IF i = last - first + 1 /\ text[last] = "M" THEN "Mc"
          ELSE text[first + i - 1]]

\* The match from the first "{" to the first "}" after it.
JsonMatchLazy(raw, payload) ==
  LET text == Effective(raw, payload)
      opens == Opens(text, payload)
  IN IF opens = {} THEN <<>>
     ELSE LET first == CHOOSE i \in opens : \A j \in opens : i <= j
              closes == {i \in Closes(text, payload) :
                           i > first \/ text[i] = "M"}
          IN IF closes = {} THEN <<>>
             ELSE Cut(text, first,
                      CHOOSE i \in closes : \A j \in closes : i <= j)

\* raw.match(/\{[\s\S]*\}/): from the first "{" to the last "}" of the
\* raw response, those inside the members text included; null (here
\* <<>>) when no "}" follows the first "{".
JsonMatch(raw, payload) ==
  LET text == Effective(raw, payload)
      opens == Opens(text, payload)
      closes == Closes(text, payload)
  IN IF opens = {} \/ closes = {} THEN <<>>
     ELSE LET first == CHOOSE i \in opens : \A j \in opens : i <= j
              last == CHOOSE i \in closes : \A j \in closes : j <= i
          IN IF first <= last THEN Cut(text, first, last) ELSE <<>>

\* route lines 103-115: the extraction attempt, on the raw response.
ExtractParse(raw, payload) ==
  LET m == JsonMatch(raw, payload)
  IN IF m = <<>> THEN Throw(<<"No JSON object found in response">>)
     ELSE JsonParse(m, payload)

\* The direct attempt alone, with no second attempt.
ParseAnalysisDirectOnly(raw, payload) == DirectParse(raw, payload)

\* route lines 56-127: the object recovered from the raw response, or the
\* error of the second attempt when both fail.
ParseAnalysis(raw, payload) ==
  LET direct == DirectParse(raw, payload)
  IN IF IsThrow(direct) THEN ExtractParse(raw, payload) ELSE direct

\* ------------------------------------------------------- transformation

TypeError == Throw(<<"TypeError">>)
Moderate == Str(<<"moderate">>)
NoSummary == Str(<<"No summary available">>)
UnknownAuthor == Str(<<"Unknown Author">>)

\* route lines 138-141: the entry made of one relationship of a character.
RelationshipEntry(character, rel) ==
  Obj([character1 |-> Get(character, "name"),
       character2 |-> Get(rel, "target"),
       relationship |-> Get(rel, "description"),
       strength |-> Moderate])

\* route lines 137-142: character.relationships?.map(rel => ...) || [].
\* Reading a property of null throws, and so does calling .map on a value
\* that is neither nullish nor an array.
CharacterRelationships(character) ==
  IF IsNullish(character) THEN TypeError
  ELSE LET rels == Get(character, "relationships")
       IN IF IsNullish(rels) THEN Arr(<<>>)
          ELSE IF rels.t /= "array" THEN TypeError
          ELSE IF \E i \in 1..Len(rels.a) : IsNullish(rels.a[i])
               THEN TypeError
          ELSE Arr([i \in 1..Len(rels.a) |->
                      RelationshipEntry(character, rels.a[i])])

\* Array.prototype.map in the place of flatMap: the arrays are not joined.
MapOnly(arrays) == arrays
\* Array.prototype.flatMap over the results of the callback, each an array.
RECURSIVE FlatMap(_)
FlatMap(arrays) ==
  IF arrays = <<>> THEN <<>> ELSE Head(arrays).a \o FlatMap(Tail(arrays))

\* route lines 131-143: parsedAnalysis.characters?.flatMap(...) || [].
FlattenRelationships(characters) ==
  IF IsNullish(characters) THEN Arr(<<>>)
  ELSE IF characters.t /= "array" THEN TypeError
  ELSE LET per == [i \in 1..Len(characters.a) |->
                     CharacterRelationships(characters.a[i])]
       IN IF \E i \in 1..Len(per) : IsThrow(per[i]) THEN TypeError
          ELSE Arr(FlatMap(per))

\* route lines 144-146: parsedAnalysis.characters?.map(char => char.name) || [].
KeyCharacters(characters) ==
  IF IsNullish(characters) THEN Arr(<<>>)
  ELSE IF characters.t /= "array" THEN TypeError
  ELSE IF \E i \in 1..Len(characters.a) : IsNullish(characters.a[i])
       THEN TypeError
  ELSE Arr([i \in 1..Len(characters.a) |-> Get(characters.a[i], "name")])

\* route lines 130-150: transformedAnalysis.
TransformedAnalysis(parsed, bookText) ==
  LET characters == Get(parsed, "characters")
      relationships == FlattenRelationships(characters)
      names == KeyCharacters(characters)
  IN IF IsThrow(relationships) THEN relationships
     ELSE IF IsThrow(names) THEN names
     ELSE Obj([characterRelationships |-> relationships,
               keyCharacters |-> names,
               themes |-> OrElse(Get(parsed, "themes"), Arr(<<>>)),
               summary |-> OrElse(Get(parsed, "plot_summary"), NoSummary),
               wordCount |-> Num(SplitLength(bookText.runs))])

\* route lines 153-159: analysisResult; `now` is the reading of the clock.
AnalysisResult(parsed, bookId, bookText, now) ==
  LET analysis == TransformedAnalysis(parsed, bookText)
  IN IF IsThrow(analysis) THEN analysis
     ELSE Obj([bookId |-> bookId,
               title |-> Str(<<"Book ID: ">> \o bookId.s),
               author |-> OrElse(Get(parsed, "author"), UnknownAuthor),
               analysis |-> analysis,
               timestamp |-> IsoString(now)])

\* ------------------------------------------------------------ CacheService

\* cache.ts line 5
DefaultTTL == 604800

\* What the store does with a command: "ok" it is applied and answered,
\* "failed" it is not applied and the client raises, "lost" it is applied
\* and the answer is lost, so the client raises.
StoreOutcomes == {"ok", "failed", "lost"}
Raises(outcome) == outcome /= "ok"
Applied(outcome) == outcome /= "failed"

\* cache.ts lines 92-94 and 101-103
generateBookKey(id) == <<"book:">> \o id \o <<":text">>
generateAnalysisKey(id) == <<"book:">> \o id \o <<":analysis">>

\* A set that keeps the timestamp of the entry it replaces.
StoreAfterSetMerge(st, key, value, ttl, outcome) ==
  IF Applied(outcome)
  THEN [k \in DOMAIN st \cup {key} |->
          IF k /= key THEN st[k]
          ELSE IF key \in DOMAIN st /\ value.t = "object"
               THEN [value |->
                       Obj([f \in DOMAIN value.o |->
                              IF f = "timestamp"
                              THEN Get(st[key].value, f) ELSE value.o[f]]),
                     ttl |-> ttl]
               ELSE [value |-> value, ttl |-> ttl]]
  ELSE st
\* The store after the command, as the outcome decides.
StoreAfterSet(st, key, value, ttl, outcome) ==
  IF Applied(outcome)
  THEN [k \in DOMAIN st \cup {key} |->
          IF k = key THEN [value |-> value, ttl |-> ttl] ELSE st[k]]
  ELSE st
StoreAfterDel(st, key, outcome) ==
  IF Applied(outcome) THEN [k \in DOMAIN st \ {key} |-> st[k]] ELSE st

\* get without its catch.
CacheGetUncaught(st, key, outcome) ==
  IF Raises(outcome) THEN Throw(<<"Redis error">>)
  ELSE IF key \in DOMAIN st THEN st[key].value ELSE Null
\* cache.ts lines 29-37: get
CacheGet(st, key, outcome) ==
  IF Raises(outcome) THEN Null
  ELSE IF key \in DOMAIN st THEN st[key].value ELSE Null

\* cache.ts lines 46-55: set; ttl is the optional argument (Undef when the
\* caller gives none).  The value is handed to the store serialized.
CacheSetTTL(ttl) == OrElse(ttl, Num(DefaultTTL)).n
\* set without its catch.
CacheSetUncaught(st, key, value, ttl, outcome) ==
  [ret |-> IF Raises(outcome) THEN Throw(<<"Redis error">>) ELSE Bool(TRUE),
   store |-> StoreAfterSet(st, key, Json(value), CacheSetTTL(ttl), outcome)]
CacheSet(st, key, value, ttl, outcome) ==
  [ret |-> Bool(~Raises(outcome)),
   store |-> StoreAfterSet(st, key, Json(value), CacheSetTTL(ttl), outcome)]

\* cache.ts lines 62-70: delete
CacheDelete(st, key, outcome) ==
  [ret |-> Bool(~Raises(outcome)), store |-> StoreAfterDel(st, key, outcome)]

\* cache.ts lines 77-85: exists
CacheExists(st, key, outcome) ==
  IF Raises(outcome) THEN Bool(FALSE) ELSE Bool(key \in DOMAIN st)

\* -------------------------------------------------------- GutenbergService

\* gutenberg.ts line 6
MaxTextLength == 5000

\* String.prototype.trim on an identifier (a sequence of characters).
RECURSIVE TrimLeft(_)
TrimLeft(id) ==
  IF id /= <<>> /\ IsSpace(Head(id)) THEN TrimLeft(Tail(id)) ELSE id
RECURSIVE TrimRight(_)
TrimRight(id) ==
  IF id /= <<>> /\ IsSpace(id[Len(id)])
  THEN TrimRight(SubSeq(id, 1, Len(id) - 1)) ELSE id
\* The identifier as it was given.
NoTrim(id) == id
Trim(id) == TrimRight(TrimLeft(id))

\* The refusal without its test of the trimmed identifier.
InvalidBookIdNoTrim(bookId) ==
  ~Truthy(bookId) \/ bookId.t /= "string"
\* gutenberg.ts line 22: the identifier is refused.
InvalidBookId(bookId) ==
  ~Truthy(bookId) \/ bookId.t /= "string" \/ Trim(bookId.s) = <<>>

\* gutenberg.ts lines 60-63
TruncationMarker == <<[c |-> ".", n |-> 3]>>
\* The cut without the marker, and no cut at all.
TruncateNoMarker(runs) ==
  IF TextLen(runs) > MaxTextLength
  THEN Canon(Substring0(runs, MaxTextLength))
  ELSE runs
TruncateNever(runs) == runs
Truncate(runs) ==
  IF TextLen(runs) > MaxTextLength
  THEN Canon(Substring0(runs, MaxTextLength) \o TruncationMarker)
  ELSE runs

\* gutenberg.ts lines 49-57: the error thrown on a response axios accepted
\* (any 2xx status), <<>> when there is none.
ResponseError(status, data) ==
  IF status /= "200"
  THEN <<"Failed to fetch book: HTTP ", status>>
  ELSE IF ~Truthy(data) \/ data.t /= "text"
       THEN <<"Invalid response format: expected text content">>
       ELSE <<>>

\* Every axios error taken for a transport failure of no special kind.
AxiosErrorMessageGeneric(bookId, status, code, message) ==
  <<"Network error", ": ">> \o message
\* gutenberg.ts lines 72-94: the message thrown for an axios error with
\* the given response status ("none": no response), code and message.
AxiosErrorMessage(bookId, status, code, message) ==
  IF status = "404" THEN <<"Book with ID ">> \o bookId.s \o <<" ", "not found">>
  ELSE IF code = "ECONNABORTED"
       THEN <<"Request ", "timeout", ": Unable to fetch book text">>
  ELSE IF code \in {"ENOTFOUND", "ECONNREFUSED"}
       THEN <<"Network error", ": Unable to connect to Project Gutenberg">>
  ELSE <<"Network error", ": ">> \o message

\* gutenberg.ts lines 49-57 and 70-101: what getBookText throws once
\* axios.get has settled with http, Undef when it goes on. A response is
\* judged by its status and body; a rejection is mapped when it is an
\* axios error, thrown again when it is another Error, and replaced by a
\* fixed message when it is no Error.
FetchFailure(bookId, http) ==
  CASE http.kind = "axiosError" ->
         Throw(AxiosErrorMessage(bookId, http.status, http.code,
                                 http.message))
    [] http.kind = "rejected" ->
         IF IsError(http.thrown) THEN http.thrown
         ELSE Throw(<<"An unexpected error occurred while fetching the book">>)
    [] OTHER ->
         IF ResponseError(http.status, http.data) /= <<>>
         THEN Throw(ResponseError(http.status, http.data))
         ELSE Undef

\* cache.ts lines 139-144: what callLLM throws when generateText rejects
\* with thrown.
CallLLMError(thrown) ==
  IF IsError(thrown) THEN Throw(<<"Groq API error: ">> \o thrown.msg)
  ELSE Throw(<<"Unknown error occurred while calling Groq API">>)

\* ---------------------------------------------------------- analyze route

\* message.includes(marker): a message is a sequence of chunks, and the
\* markers the route looks for are chunks of their own.
Includes(msg, marker) == \E i \in 1..Len(msg) : msg[i] = marker

Response(status, body) == [status |-> status, body |-> Json(body)]
ErrorBody(msg) == Obj([error |-> Str(msg)])

\* route lines 166-200: the response for a caught Error with message msg.
ErrorResponse(msg, bookId) ==
  IF Includes(msg, "not found")
  THEN Response(404, ErrorBody(<<"Book with ID ">> \o bookId.s
                                \o <<" ", "not found">>))
  ELSE IF Includes(msg, "timeout") \/ Includes(msg, "Network error")
       THEN Response(503, ErrorBody(<<"Service temporarily unavailable">>))
  ELSE IF Includes(msg, "GROQ_API_KEY")
       THEN Response(500, ErrorBody(<<"LLM service configuration error">>))
  ELSE Response(500, ErrorBody(msg))

\* route lines 165-200: the response of the catch for a thrown value.
CaughtResponse(thrown, bookId) ==
  IF IsError(thrown) THEN ErrorResponse(thrown.msg, bookId)
  ELSE Response(500, ErrorBody(<<"Failed to analyze book">>))

\* A hit that answers with the inner analysis only.
HitResponseInner(cachedAnalysis) ==
  Response(200, Get(cachedAnalysis, "analysis"))
\* route line 34: the response on an analysis cache hit.
HitResponse(cachedAnalysis) == Response(200, cachedAnalysis)

\* route lines 117-125
UnparsableResponse ==
  Response(500,
    Obj([error |-> Str(<<"Invalid analysis response format - LLM did not return valid JSON">>),
         details |-> Str(<<"The AI response could not be parsed as JSON. This may be due to the LLM including explanatory text or markdown formatting.">>)]))

\* cache.ts lines 12-16 and 122-124: the constructors' errors.
RedisEnvError ==
  <<"UPSTASH_REDIS_REST_URL and UPSTASH_REDIS_REST_TOKEN environment variables are required">>
GroqEnvError == <<"GROQ_API_KEY", " environment variable is required">>

\* ------------------------------------------------------------------- state

\* Number of requests served in a behaviour.
NumRequests == 2
Requests == 1..NumRequests

VARIABLES
  env,        \* which credentials the environment holds
  store,      \* the cache store: key -> [value, ttl]
  clock,      \* the wall clock read by new Date()
  req,        \* per request: its position and its local variables
  fetchCalls, \* outbound requests issued to the text provider
  llmCalls,   \* calls issued to the model provider
  lastOp      \* the last CacheService call: its operation, whether the
              \* store raised, and what the call gave its caller

vars == <<env, store, clock, req, fetchCalls, llmCalls, lastOp>>

IdleRequest ==
  [pc |-> "idle", kind |-> "none", bookId |-> Null, http |-> Undef,
   data |-> Undef, bookExists |-> Undef, messages |-> <<>>, sent |-> <<>>,
   bookText |-> Undef, raw |-> <<>>, payload |-> Undef, result |-> Undef, response |-> Undef,
   hit |-> FALSE]

NoOp == [op |-> "none", raised |-> FALSE, result |-> Undef]
CacheOp(op, outcome, result) ==
  [op |-> op, raised |-> Raises(outcome), result |-> result]

\* ------------------------------------------------------------------ inputs

\* The bookId query parameter: null when it is missing.
BookIdParams ==
  {Null, Str(<<>>), Str(<<" ">>), Str(<<"1">>), Str(<<" ", "1">>),
   Str(<<"2">>)}

Word(n) == [c |-> "a", n |-> n]
Space(n) == [c |-> " ", n |-> n]

\* Texts the provider serves.
PaddedText == Text(<<Space(1), Word(2), Space(1)>>)
LongText == Text(<<Word(MaxTextLength - 1), Space(2), Word(3)>>)

\* What axios.get does with a request: a response axios accepts, an axios
\* error, or a rejection that is no axios error (an Error, a string).
HttpOutcomes ==
  {[kind |-> "response", status |-> "200", data |-> d] : d \in {PaddedText, LongText, Text(<<>>), EmptyObject}}
  \cup {[kind |-> "response", status |-> "204", data |-> Text(<<>>)]}
  \cup {[kind |-> "axiosError", status |-> "404", code |-> "ERR_BAD_REQUEST",
         message |-> <<"Request failed with status code 404">>],
        [kind |-> "axiosError", status |-> "500", code |-> "ERR_BAD_RESPONSE",
         message |-> <<"Request failed with status code 500">>],
        [kind |-> "axiosError", status |-> "none", code |-> "ECONNABORTED",
         message |-> <<"timeout", " of 10000ms exceeded">>],
        [kind |-> "axiosError", status |-> "none", code |-> "ENOTFOUND",
         message |-> <<"getaddrinfo ENOTFOUND www.gutenberg.org">>],
        [kind |-> "axiosError", status |-> "none", code |-> "ECONNREFUSED",
         message |-> <<"connect ECONNREFUSED">>],
        [kind |-> "axiosError", status |-> "none", code |-> "ECONNRESET",
         message |-> <<"socket hang up">>],
        [kind |-> "rejected", thrown |-> Throw(<<"Unexpected error">>)],
        [kind |-> "rejected",
         thrown |-> ThrowValue(Str(<<"String error">>))]}

\* A member of an object under construction; none when v is undefined.
Member(k, v) == [x \in (IF v.t = "undefined" THEN {} ELSE {k}) |-> v]

\* Sequences over S of length at most n.
SeqsUpTo(S, n) == UNION {[1..m -> S] : m \in 0..n}

\* Relationship entries: one whose target is a listed character, one whose
\* target names no listed character, and a null entry.
RelToB == Obj([target |-> Str(<<"B">>), description |-> Str(<<"friend">>)])
RelToZ == Obj([target |-> Str(<<"Z">>), description |-> Str(<<"rival">>)])
\* Most relationship entries of an enumerated character.
MaxRels == 2
RelationshipLists ==
  {Arr(a) : a \in SeqsUpTo({RelToB, RelToZ, Null}, MaxRels)}
  \cup {Undef, Null, Str(<<"x">>)}

CharacterEntries ==
  {Obj(Member("name", Str(<<"A">>)) @@ Member("relationships", r)
       @@ Member("description", Str(<<"hero">>))) :
     r \in RelationshipLists}
  \cup {Obj([name |-> Str(<<"B">>)]), Null, Num(5)}
CharacterLists ==
  {Arr(a) : a \in SeqsUpTo(CharacterEntries, MaxChars)}
  \cup {Undef, Null, Str(<<"x">>), Str(<<>>)}

KeyEvent ==
  Obj([event |-> Str(<<"E">>), significance |-> Str(<<"why">>),
       characters_involved |-> Arr(<<Str(<<"A">>)>>)])
\* The members besides characters, themes and plot_summary: none, or all
\* of title, author, key_events and a word count of the model's own.
OtherMembers ==
  {[k \in {} |-> Undef],
   [title |-> Str(<<"T">>), author |-> Str(<<"Au">>),
    key_events |-> Arr(<<KeyEvent>>), wordCount |-> Num(99)],
   [foo |-> Num(1)]}

\* The payload with the given members.
Payload(characters, themes, summary, rest) ==
  Obj(Member("characters", characters) @@ Member("themes", themes)
      @@ Member("plot_summary", summary) @@ rest)

\* A well-formed payload with every expected member.
FullPayload ==
  Obj([title |-> Str(<<"T">>), author |-> Str(<<"Au">>),
       characters |->
         Arr(<<Obj([name |-> Str(<<"A">>), description |-> Str(<<"hero">>),
                    relationships |-> Arr(<<RelToB, RelToZ>>)]),
               Obj([name |-> Str(<<"B">>)])>>),
       themes |-> Arr(<<Str(<<"A">>), Str(<<"B">>)>>),
       plot_summary |-> Str(<<"S">>),
       key_events |-> Arr(<<KeyEvent>>), wordCount |-> Num(99)])
\* A payload whose characters member is not a list.
BadPayload == Obj([characters |-> Str(<<"x">>)])
\* A payload that holds one nested object and nothing else.
OneObjectPayload ==
  Obj([characters |-> Arr(<<Obj([name |-> Str(<<"B">>)])>>)])

BareObject == <<"{", "M", "}">>

\* What the model provider answers in the system specification: the text
\* it generated and the object the member text "M" denotes.
ModelResponses ==
  {[raw |-> BareObject, payload |-> FullPayload],
   [raw |-> <<"F", "J", "W", "{", "M", "}", "W", "F">>,
    payload |-> FullPayload],
   [raw |-> <<"{", "}">>, payload |-> EmptyObject],
   [raw |-> <<"P", "W", "P">>, payload |-> EmptyObject],
   [raw |-> BareObject, payload |-> BadPayload]}
\* What generateText rejects with: an Error of the provider, or a value
\* that is no Error.
ModelErrors ==
  {Throw(<<"rate limit exceeded">>), Throw(<<"model ", "not found">>),
   ThrowValue(Str(<<"String error">>))}

\* ----------------------------------------------------------------- actions

Init ==
  /\ env \in [redis : BOOLEAN, groq : BOOLEAN]
  /\ store = [k \in {} |-> Undef]
  /\ clock = 0
  /\ req = [r \in Requests |-> IdleRequest]
  /\ fetchCalls = 0
  /\ llmCalls = 0
  /\ lastOp = NoOp

\* agent.ts lines 7-10: the prompt an agent was constructed with.
SystemPrompt == <<"You are a meticulous book analyzer">>
\* agent.ts lines 109-137: the prompt of BookChatAgent, a chunk per line.
\* The chunk "U+26A0 U+FE0F" stands for the warning sign, the two code
\* points of that name, which a string of this notation cannot hold.
BookChatPrompt ==
  <<"You are a knowledgeable book expert with deep understanding of literature, characters, themes, and literary analysis. You can answer questions about any book based on the text provided to you.\n",
    "\n",
    "U+26A0 U+FE0F",
    " CRITICAL RESPONSE FORMAT REQUIREMENT ",
    "U+26A0 U+FE0F",
    "\n",
    "You MUST return ONLY plain text responses.\n",
    "- NO HTML tags or formatting\n",
    "- NO markdown formatting (no **bold**, *italic*, # headers, etc.)\n",
    "- NO code blocks or backticks\n",
    "- NO bullet points or numbered lists with special characters\n",
    "- NO special formatting characters\n",
    "- Use simple text only with regular punctuation\n",
    "\n",
    "Your responses should be:\n",
    "- Informative and well-reasoned\n",
    "- Engaging and conversational\n",
    "- Based on the actual text content provided\n",
    "- Helpful for readers who want to understand the book better\n",
    "- Written in plain text format only\n",
    "\n",
    "You can discuss:\n",
    "- Character motivations and development\n",
    "- Plot analysis and structure\n",
    "- Themes and symbolism\n",
    "- Literary techniques and style\n",
    "- Historical and cultural context\n",
    "- Comparisons with other works\n",
    "\n",
    "Always base your answers on the text that has been shared with you, and be honest if you don't have enough information to answer a specific question.\n",
    "\n",
    "IMPORTANT: Return only plain text. No formatting, no HTML, no markdown.">>
Message(role, content) == [role |-> role, content |-> Str(content)]

\* The system prompt placed after the caller's messages.
FullMessagesAppended(systemPrompt, messages) ==
  messages \o <<Message("system", systemPrompt)>>
\* agent.ts lines 13-16: the messages handed to the service.
FullMessages(systemPrompt, messages) ==
  <<Message("system", systemPrompt)>> \o messages

\* chat route lines 32-35: the system message that carries the book text
\* between the two fixed parts of its template.
ContextMessage(bookText) ==
  [role |-> "system",
   content |->
     [t |-> "template",
      head |-> "You are a helpful assistant discussing the following book. Use this book text as your reference for answering questions:\n\n",
      text |-> bookText,
      tail |-> "\n\nPlease provide thoughtful, accurate responses based on the book content."]]

\* chat route lines 44-54: the response of the catch for a thrown value.
ChatErrorResponse(thrown) ==
  IF IsError(thrown) THEN Response(500, ErrorBody(thrown.msg))
  ELSE Response(500, ErrorBody(<<"Internal server error">>))

\* The request ends with this response.
Finish(r, response) ==
  req' = [req EXCEPT ![r].pc = "done", ![r].response = response]

\* getBookText throws an Error with message msg: a direct caller receives
\* it, the catch of a route turns it into a response.
Failed(q, msg) ==
  CASE q.kind = "analyze" ->
         [q EXCEPT !.pc = "done", !.response = ErrorResponse(msg, q.bookId)]
    [] q.kind = "chatRoute" ->
         [q EXCEPT !.pc = "done", !.response = ChatErrorResponse(Throw(msg))]
    [] OTHER -> [q EXCEPT !.pc = "done", !.result = Throw(msg)]
\* getBookText returns text (gutenberg.ts lines 33 and 69): the analyze
\* route calls the model with it (route lines 44-53), the chat route puts
\* the context message before the caller's messages and calls chat (chat
\* route lines 29-41, agent.ts lines 12-18), a direct caller receives it.
Returned(q, text) ==
  CASE q.kind = "analyze" -> [q EXCEPT !.pc = "callModel", !.bookText = text]
    [] q.kind = "chatRoute" ->
         [q EXCEPT !.pc = "callLLM", !.bookText = text,
                   !.sent = FullMessages(BookChatPrompt,
                                         <<ContextMessage(text)>>
                                           \o q.messages)]
    [] OTHER -> [q EXCEPT !.pc = "done", !.result = text]
Fail(r, msg) == req' = [req EXCEPT ![r] = Failed(req[r], msg)]

\* gutenberg.ts lines 19-27: getBookText is called on its own; the
\* identifier is validated and the read of the text entry is issued.
CallGetBookText(r, bookId) ==
  /\ req[r].pc = "idle"
  /\ IF InvalidBookId(bookId)
     THEN req' = [req EXCEPT ![r].pc = "done", ![r].kind = "fetchText",
                    ![r].bookId = bookId,
                    ![r].result = Throw(<<"Invalid book ID provided">>)]
     ELSE req' = [req EXCEPT ![r].pc = "textCacheGet",
                    ![r].kind = "fetchText", ![r].bookId = bookId]
  /\ UNCHANGED <<env, store, clock, fetchCalls, llmCalls, lastOp>>

\* route lines 10-30: the request arrives; the handler runs up to its
\* first await, the read of the analysis entry.
ArriveAnalyze(r, bookId) ==
  /\ req[r].pc = "idle"
  /\ IF ~Truthy(bookId)
     THEN req' = [req EXCEPT ![r].pc = "done", ![r].kind = "analyze",
                    ![r].bookId = bookId,
                    ![r].response =
                      Response(400, ErrorBody(<<"bookId parameter is required">>))]
     ELSE IF ~env.redis
     THEN req' = [req EXCEPT ![r].pc = "done", ![r].kind = "analyze",
                    ![r].bookId = bookId,
                    ![r].response = ErrorResponse(RedisEnvError, bookId)]
     ELSE IF ~env.groq
     THEN req' = [req EXCEPT ![r].pc = "done", ![r].kind = "analyze",
                    ![r].bookId = bookId,
                    ![r].response = ErrorResponse(GroqEnvError, bookId)]
     ELSE req' = [req EXCEPT ![r].pc = "checkCache", ![r].kind = "analyze",
                    ![r].bookId = bookId]
  /\ UNCHANGED <<env, store, clock, fetchCalls, llmCalls, lastOp>>

\* A hit that has already asked the provider for the text.
AnalysisHitRefetch(r, cachedAnalysis) ==
  /\ req' = [req EXCEPT ![r].pc = "done", ![r].hit = TRUE,
               ![r].response = HitResponse(cachedAnalysis)]
  /\ fetchCalls' = fetchCalls + 1
  /\ UNCHANGED <<store, llmCalls>>
\* route lines 32-35: the analysis entry is there; it is the response.
AnalysisHit(r, cachedAnalysis) ==
  /\ req' = [req EXCEPT ![r].pc = "done", ![r].hit = TRUE,
               ![r].response = HitResponse(cachedAnalysis)]
  /\ UNCHANGED <<store, fetchCalls, llmCalls>>

\* route lines 29-42 and gutenberg.ts lines 20-30: the read of the analysis
\* entry completes; on a hit the stored result is the response, on a miss
\* getBookText starts and runs up to its read of the text entry.
CheckCache(r, outcome) ==
  /\ req[r].pc = "checkCache"
  /\ LET key == generateAnalysisKey(req[r].bookId.s)
         cachedAnalysis == CacheGet(store, key, outcome)
     IN IF IsThrow(cachedAnalysis)
        THEN /\ Finish(r, ErrorResponse(cachedAnalysis.msg, req[r].bookId))
             /\ UNCHANGED <<store, fetchCalls, llmCalls>>
        ELSE IF Truthy(cachedAnalysis)
        THEN AnalysisHit(r, cachedAnalysis)
        ELSE IF InvalidBookId(req[r].bookId)
        THEN /\ Finish(r, ErrorResponse(<<"Invalid book ID provided">>,
                                        req[r].bookId))
             /\ UNCHANGED <<store, fetchCalls, llmCalls>>
        ELSE /\ req' = [req EXCEPT ![r].pc = "textCacheGet"]
             /\ UNCHANGED <<store, fetchCalls, llmCalls>>
  /\ UNCHANGED <<env, clock, lastOp>>

\* gutenberg.ts lines 26-47: the read of the text entry completes; on a
\* hit the cached text is returned to the caller, on a miss the request
\* to the provider is issued.
TextCacheGet(r, outcome) ==
  /\ req[r].pc = "textCacheGet"
  /\ LET key == generateBookKey(Trim(req[r].bookId.s))
         cachedText == CacheGet(store, key, outcome)
     IN /\ IF IsThrow(cachedText)
           THEN /\ Fail(r, cachedText.msg)
                /\ UNCHANGED <<fetchCalls, llmCalls>>
           ELSE IF Truthy(cachedText)
           THEN /\ req' = [req EXCEPT ![r] = Returned(req[r], cachedText)]
                /\ llmCalls' =
                     IF req'[r].pc \in {"callModel", "callLLM"}
                     THEN llmCalls + 1 ELSE llmCalls
                /\ UNCHANGED fetchCalls
           ELSE /\ req' = [req EXCEPT ![r].pc = "httpGet"]
                /\ fetchCalls' = fetchCalls + 1
                /\ UNCHANGED llmCalls
  /\ UNCHANGED <<env, store, clock, lastOp>>

\* The provider is asked once more after a failed answer.
HttpGetRetry(r, http) ==
  /\ req[r].pc = "httpGet"
  /\ LET failure == FetchFailure(req[r].bookId, http)
     IN IF IsThrow(failure)
        THEN /\ req' = [req EXCEPT ![r].http = http]
             /\ fetchCalls' = fetchCalls + 1
        ELSE /\ req' = [req EXCEPT ![r].pc = "textCacheSet",
                          ![r].http = http, ![r].data = http.data,
                          ![r].bookText = Text(Truncate(http.data.runs))]
             /\ UNCHANGED fetchCalls
  /\ UNCHANGED <<env, store, clock, llmCalls, lastOp>>

\* gutenberg.ts lines 42-66 and 70-102: axios.get settles; the text is
\* truncated and its store is issued, or the failure is thrown and
\* reaches the caller.
HttpGet(r, http) ==
  /\ req[r].pc = "httpGet"
  /\ LET failure == FetchFailure(req[r].bookId, http)
     IN IF IsThrow(failure)
        THEN req' = [req EXCEPT ![r] = [Failed(req[r], failure.msg)
                                          EXCEPT !.http = http]]
        ELSE req' = [req EXCEPT ![r].pc = "textCacheSet",
                       ![r].http = http, ![r].data = http.data,
                       ![r].bookText = Text(Truncate(http.data.runs))]
  /\ UNCHANGED <<env, store, clock, fetchCalls, llmCalls, lastOp>>

\* gutenberg.ts lines 65-69: the store of the text completes; the text is
\* returned to the caller.
TextCacheSet(r, outcome) ==
  /\ req[r].pc = "textCacheSet"
  /\ LET key == generateBookKey(Trim(req[r].bookId.s))
         set == CacheSet(store, key, req[r].bookText, Undef, outcome)
     IN /\ store' = set.store
        /\ IF IsThrow(set.ret)
           THEN /\ Fail(r, set.ret.msg)
                /\ UNCHANGED llmCalls
           ELSE /\ req' = [req EXCEPT ![r] =
                             Returned(req[r], req[r].bookText)]
                /\ llmCalls' =
                     IF req'[r].pc \in {"callModel", "callLLM"}
                     THEN llmCalls + 1 ELSE llmCalls
  /\ UNCHANGED <<env, clock, fetchCalls, lastOp>>

\* route lines 53-162: the model answers with the text raw; the object is
\* recovered and transformed, the result is stamped and its store issued.
ModelReturns(r, raw, payload) ==
  /\ req[r].pc = "callModel"
  /\ LET parsed == ParseAnalysis(raw, payload)
         result == AnalysisResult(parsed, req[r].bookId, req[r].bookText,
                                  clock)
     IN IF IsThrow(parsed)
        THEN req' = [req EXCEPT ![r].pc = "done", ![r].raw = raw,
                       ![r].payload = payload,
                       ![r].response = UnparsableResponse]
        ELSE IF IsThrow(result)
        THEN req' = [req EXCEPT ![r].pc = "done", ![r].raw = raw,
                       ![r].payload = payload,
                       ![r].response =
                         ErrorResponse(result.msg, req[r].bookId)]
        ELSE req' = [req EXCEPT ![r].pc = "storeAnalysis", ![r].raw = raw,
                       ![r].payload = payload, ![r].result = result]
  /\ UNCHANGED <<env, store, clock, fetchCalls, llmCalls, lastOp>>

\* The failure of the model call stored as the analysis.
ModelThrowsStored(r, thrown) ==
  /\ req[r].pc = "callModel"
  /\ store' = StoreAfterSet(store, generateAnalysisKey(req[r].bookId.s),
                            ErrorBody(CallLLMError(thrown).msg), DefaultTTL,
                            "ok")
  /\ Finish(r, CaughtResponse(CallLLMError(thrown), req[r].bookId))
  /\ UNCHANGED <<env, clock, fetchCalls, llmCalls, lastOp>>

\* cache.ts lines 139-144 and route lines 165-200: generateText rejects
\* with thrown; callLLM throws its own Error and the route answers it.
ModelThrows(r, thrown) ==
  /\ req[r].pc = "callModel"
  /\ Finish(r, CaughtResponse(CallLLMError(thrown), req[r].bookId))
  /\ UNCHANGED <<env, store, clock, fetchCalls, llmCalls, lastOp>>

\* route lines 161-165: the store of the result completes; the result is
\* the response.
StoreAnalysis(r, outcome) ==
  /\ req[r].pc = "storeAnalysis"
  /\ LET key == generateAnalysisKey(req[r].bookId.s)
         set == CacheSet(store, key, req[r].result, Undef, outcome)
     IN /\ store' = set.store
        /\ IF IsThrow(set.ret)
           THEN Finish(r, ErrorResponse(set.ret.msg, req[r].bookId))
           ELSE Finish(r, Response(200, req[r].result))
  /\ UNCHANGED <<env, clock, fetchCalls, llmCalls, lastOp>>

\* An entry's time to live runs out.
Expire(key) ==
  /\ key \in DOMAIN store
  /\ store' = [k \in DOMAIN store \ {key} |-> store[k]]
  /\ UNCHANGED <<env, clock, req, fetchCalls, llmCalls, lastOp>>

\* Time passes.
Tick ==
  /\ clock < MaxClock
  /\ clock' = clock + 1
  /\ UNCHANGED <<env, store, req, fetchCalls, llmCalls, lastOp>>

Next ==
  \/ \E r \in Requests, bookId \in BookIdParams : ArriveAnalyze(r, bookId)
  \/ \E r \in Requests, outcome \in StoreOutcomes : CheckCache(r, outcome)
  \/ \E r \in Requests, outcome \in StoreOutcomes : TextCacheGet(r, outcome)
  \/ \E r \in Requests, http \in HttpOutcomes : HttpGet(r, http)
  \/ \E r \in Requests, outcome \in StoreOutcomes : TextCacheSet(r, outcome)
  \/ \E r \in Requests, m \in ModelResponses :
       ModelReturns(r, m.raw, m.payload)
  \/ \E r \in Requests, thrown \in ModelErrors : ModelThrows(r, thrown)
  \/ \E r \in Requests, outcome \in StoreOutcomes : StoreAnalysis(r, outcome)
  \/ \E key \in DOMAIN store : Expire(key)
  \/ Tick

Spec == Init /\ [][Next]_vars

\* ------------------------------------------ the normalizer on its own

\* Longest enumerated source text, in runs, and the longest run.
MaxRuns == 3
MaxRunLen == 2

\* Every text of at most MaxRuns runs of words and whitespace, but the
\* empty one (getBookText never returns it).
NormTexts ==
  {Text(runs) : runs \in
     {x \in SeqsUpTo([c : {"a", " "}, n : 1..MaxRunLen], MaxRuns) :
        x /= <<>> /\ Canon(x) = x}}

\* One request that has fetched its text and called the model.
InitNorm ==
  /\ env = [redis |-> TRUE, groq |-> TRUE]
  /\ store = [k \in {} |-> Undef]
  /\ clock \in 0..MaxClock
  /\ \E text \in NormTexts \cup {PaddedText} :
       req = [r \in Requests |->
                IF r = 1
                THEN [IdleRequest EXCEPT !.pc = "callModel",
                        !.kind = "analyze", !.bookId = Str(<<"1">>),
                        !.bookText = text]
                ELSE IdleRequest]
  /\ fetchCalls = 1
  /\ llmCalls = 1
  /\ lastOp = NoOp

\* The model's answers enumerated for the normalizer: every raw response
\* around three payloads, and as a bare object every characters member and
\* every combination of the other members, for one source text; and the
\* system's model responses for every source text.
NormRawResponses(r) ==
  /\ req[r].pc = "callModel"
  /\ req[r].bookText = PaddedText
  /\ \E raw \in SeqsUpTo(RawTokens, MaxRawLen),
        payload \in {FullPayload, BadPayload, OneObjectPayload} :
       ModelReturns(r, raw, payload)

NormPayloads(r) ==
  /\ req[r].pc = "callModel"
  /\ req[r].bookText = PaddedText
  /\ \/ \E c \in CharacterLists, rest \in OtherMembers :
          ModelReturns(r, BareObject, Payload(c, Undef, Undef, rest))
     \/ \E c \in {Undef, Arr(<<>>), Get(FullPayload, "characters")},
           th \in {Undef, Arr(<<>>), Arr(<<Str(<<"A">>), Str(<<"B">>)>>),
                   Str(<<"x">>)},
           su \in {Undef, Str(<<>>), Str(<<"S">>), Num(7)},
           rest \in OtherMembers :
          ModelReturns(r, BareObject, Payload(c, th, su, rest))

NextNorm ==
  \/ NormRawResponses(1)
  \/ NormPayloads(1)
  \/ \E m \in ModelResponses : ModelReturns(1, m.raw, m.payload)
  \/ \E outcome \in StoreOutcomes : StoreAnalysis(1, outcome)

SpecNorm == InitNorm /\ [][NextNorm]_vars

\* ------------------------------------------------------------------ agent

\* agent.ts lines 12-18: chat is called; the service is called with the
\* full messages.
CallChat(r, messages) ==
  /\ req[r].pc = "idle"
  /\ req' = [req EXCEPT ![r].pc = "callLLM", ![r].kind = "chat",
               ![r].messages = messages,
               ![r].sent = FullMessages(SystemPrompt, messages)]
  /\ llmCalls' = llmCalls + 1
  /\ UNCHANGED <<env, store, clock, fetchCalls, lastOp>>

\* agent.ts line 18 and chat route lines 41-43: the service resolves;
\* chat resolves with its string, which the chat route answers with.
LLMAnswers(r, text) ==
  /\ req[r].pc = "callLLM"
  /\ req' = [req EXCEPT ![r].pc = "done", ![r].data = Str(text),
               ![r].result = Str(text),
               ![r].response =
                 IF req[r].kind = "chatRoute"
                 THEN Response(200, Obj([response |-> Str(text)]))
                 ELSE Undef]
  /\ UNCHANGED <<env, store, clock, fetchCalls, llmCalls, lastOp>>

\* agent.ts line 18 and chat route lines 44-54: the service rejects with
\* thrown; chat rejects with the same value, which the catch of the chat
\* route answers.
LLMFails(r, thrown) ==
  /\ req[r].pc = "callLLM"
  /\ req' = [req EXCEPT ![r].pc = "done", ![r].data = thrown,
               ![r].result = thrown,
               ![r].response =
                 IF req[r].kind = "chatRoute"
                 THEN ChatErrorResponse(thrown)
                 ELSE Undef]
  /\ UNCHANGED <<env, store, clock, fetchCalls, llmCalls, lastOp>>

\* Most messages a caller hands to chat.
MaxMessages == 2
ChatMessages ==
  {Message(role, content) : role \in {"user", "assistant"},
                            content \in {<<"What is 2+2?">>, <<"4">>}}
RECURSIVE MessageLists(_)
MessageLists(n) ==
  IF n = 0 THEN {<<>>}
  ELSE LET shorter == MessageLists(n - 1)
       IN shorter \cup {Append(l, m) : l \in shorter, m \in ChatMessages}
LLMReplies == {<<"2+2 equals 4.">>, <<>>}
\* What a service rejects with.
LLMErrors ==
  {Throw(<<"LLM service error">>), Throw(<<"Groq API error: ", "timeout">>),
   ThrowValue(Str(<<"String error">>))}

\* An agent constructed over a service, before any call.
InitAgent ==
  /\ env = [redis |-> TRUE, groq |-> TRUE]
  /\ store = [k \in {} |-> Undef]
  /\ clock = 0
  /\ req = [r \in Requests |-> IdleRequest]
  /\ fetchCalls = 0
  /\ llmCalls = 0
  /\ lastOp = NoOp

NextAgent ==
  \/ \E r \in Requests, messages \in MessageLists(MaxMessages) :
       CallChat(r, messages)
  \/ \E r \in Requests, text \in LLMReplies : LLMAnswers(r, text)
  \/ \E r \in Requests, thrown \in LLMErrors : LLMFails(r, thrown)

SpecAgent == InitAgent /\ [][NextAgent]_vars

\* ------------------------------------------------------------ cache route

\* README.md lines 823-833: the action is neither status nor clear.
InvalidActionResponse ==
  Response(400,
    Obj([error |-> Str(<<"Invalid action. Supported actions: status, clear">>),
         usage |->
           Obj([status |-> Str(<<"GET /api/cache?action=status&bookId=123">>),
                clear |-> Str(<<"GET /api/cache?action=clear&bookId=123">>)])]))
\* README.md lines 813-821: clear without a bookId.
BulkClearResponse(now) ==
  Response(200,
    Obj([message |->
           Str(<<"Please specify bookId to clear specific book cache">>),
         note |-> Str(<<"Bulk cache clearing not implemented for safety">>),
         timestamp |-> IsoString(now)]))
\* README.md lines 792-797: the answer of status.
StatusResponse(bookId, bookExists, analysisExists, now) ==
  Response(200,
    Obj([bookId |-> bookId, bookTextCached |-> bookExists,
         analysisCached |-> analysisExists, timestamp |-> IsoString(now)]))
\* README.md lines 809-812 and 864-867: the answer of clear.
ClearedResponse(bookId, now) ==
  Response(200,
    Obj([message |-> Str(<<"Cache cleared for book ">> \o bookId.s),
         timestamp |-> IsoString(now)]))
\* README.md lines 773 and 855: the CacheService constructor throws
\* outside the handler's try, and the framework answers for the handler.
UncaughtResponse == [status |-> 500, body |-> Null]

\* README.md lines 768-787, 799-805 and 813-833: GET /api/cache arrives;
\* the handler runs up to its first await, if it has one.
ArriveCache(r, action, bookId) ==
  /\ req[r].pc = "idle"
  /\ LET q == [req[r] EXCEPT !.kind = "cache", !.bookId = bookId]
         Answer(response) ==
           req' = [req EXCEPT ![r] = [q EXCEPT !.pc = "done",
                                               !.response = response]]
     IN IF ~env.redis THEN Answer(UncaughtResponse)
        ELSE IF action = "status"
        THEN IF ~Truthy(bookId)
             THEN Answer(Response(400, ErrorBody(
                    <<"bookId parameter is required for status action">>)))
             ELSE req' = [req EXCEPT ![r] = [q EXCEPT !.kind = "status",
                                                     !.pc = "statusText"]]
        ELSE IF action = "clear"
        THEN IF Truthy(bookId)
             THEN req' = [req EXCEPT ![r] = [q EXCEPT !.kind = "clear",
                                                     !.pc = "clearText"]]
             ELSE Answer(BulkClearResponse(clock))
        ELSE Answer(InvalidActionResponse)
  /\ UNCHANGED <<env, store, clock, fetchCalls, llmCalls, lastOp>>

\* README.md lines 844-859: DELETE /api/cache arrives.
ArriveDelete(r, bookId) ==
  /\ req[r].pc = "idle"
  /\ LET q == [req[r] EXCEPT !.kind = "clear", !.bookId = bookId]
     IN IF ~Truthy(bookId)
        THEN req' = [req EXCEPT ![r] =
                       [q EXCEPT !.pc = "done",
                                 !.response = Response(400, ErrorBody(
                                   <<"bookId parameter is required">>))]]
        ELSE IF ~env.redis
        THEN req' = [req EXCEPT ![r] = [q EXCEPT !.pc = "done",
                                               !.response = UncaughtResponse]]
        ELSE req' = [req EXCEPT ![r] = [q EXCEPT !.pc = "clearText"]]
  /\ UNCHANGED <<env, store, clock, fetchCalls, llmCalls, lastOp>>

\* README.md lines 786-789: exists of the text key answers.
StatusText(r, outcome) ==
  /\ req[r].pc = "statusText"
  /\ req' = [req EXCEPT ![r].pc = "statusAnalysis",
               ![r].bookExists =
                 CacheExists(store, generateBookKey(req[r].bookId.s),
                             outcome)]
  /\ UNCHANGED <<env, store, clock, fetchCalls, llmCalls, lastOp>>

\* README.md lines 790-797: exists of the analysis key answers; the
\* status is returned.
StatusAnalysis(r, outcome) ==
  /\ req[r].pc = "statusAnalysis"
  /\ LET analysisExists ==
           CacheExists(store, generateAnalysisKey(req[r].bookId.s), outcome)
     IN Finish(r, StatusResponse(req[r].bookId, req[r].bookExists,
                                 analysisExists, clock))
  /\ UNCHANGED <<env, store, clock, fetchCalls, llmCalls, lastOp>>

\* README.md lines 803-806 and 858-861: delete of the text key answers.
ClearText(r, outcome) ==
  /\ req[r].pc = "clearText"
  /\ store' = CacheDelete(store, generateBookKey(req[r].bookId.s),
                          outcome).store
  /\ req' = [req EXCEPT ![r].pc = "clearAnalysis"]
  /\ UNCHANGED <<env, clock, fetchCalls, llmCalls, lastOp>>

\* README.md lines 807-812 and 862-867: delete of the analysis key
\* answers; the clearing is acknowledged.
ClearAnalysis(r, outcome) ==
  /\ req[r].pc = "clearAnalysis"
  /\ store' = CacheDelete(store, generateAnalysisKey(req[r].bookId.s),
                          outcome).store
  /\ Finish(r, ClearedResponse(req[r].bookId, clock))
  /\ UNCHANGED <<env, clock, fetchCalls, llmCalls, lastOp>>

\* The invocation is over; the next one takes its place.
Recycle(r) ==
  /\ req[r].pc = "done"
  /\ req' = [req EXCEPT ![r] = IdleRequest]
  /\ UNCHANGED <<env, store, clock, fetchCalls, llmCalls, lastOp>>


\* ------------------------------------------- GutenbergService on its own

\* The bookId argument of getBookText.
FetchIds ==
  {Undef, Null, Str(<<>>), Str(<<" ">>), Str(<<" ", " ">>), Num(1),
   Str(<<"1">>), Str(<<" ", "1">>), Str(<<"1", " ">>)}

\* Texts of the provider around the maximum length.
FetchResponses ==
  {[kind |-> "response", status |-> "200", data |-> d] : d \in
  {PaddedText, LongText,
   Text(<<Word(MaxTextLength - 1)>>),
   Text(<<Word(MaxTextLength)>>),
   Text(<<Word(MaxTextLength + 1)>>),
   Text(<<Word(MaxTextLength), Space(1), Word(1)>>),
   Text(<<Word(MaxTextLength - 2), Space(2)>>),
   Text(<<Space(1), Word(MaxTextLength)>>)}}

InitFetch ==
  /\ env = [redis |-> TRUE, groq |-> TRUE]
  /\ store = [k \in {} |-> Undef]
  /\ clock = 0
  /\ req = [r \in Requests |-> IdleRequest]
  /\ fetchCalls = 0
  /\ llmCalls = 0
  /\ lastOp = NoOp

NextFetch ==
  \/ \E r \in Requests, bookId \in FetchIds : CallGetBookText(r, bookId)
  \/ \E r \in Requests, outcome \in StoreOutcomes : TextCacheGet(r, outcome)
  \/ \E r \in Requests, http \in HttpOutcomes \cup FetchResponses : HttpGet(r, http)
  \/ \E r \in Requests, outcome \in StoreOutcomes : TextCacheSet(r, outcome)
  \/ \E key \in DOMAIN store : Expire(key)

SpecFetch == InitFetch /\ [][NextFetch]_vars

\* ------------------------------------- an unreachable store beside a sound one

\* Request 1 is served while the store is unreachable (every command
\* raises and none is applied), request 2 while it works.
OutcomeFor(r) == IF r = 1 THEN "failed" ELSE "ok"
DownIds == {Str(<<"1">>), Str(<<" ", "1">>), Str(<<" ">>)}

NextDown ==
  \/ \E r \in Requests, bookId \in DownIds : ArriveAnalyze(r, bookId)
  \/ \E r \in Requests, bookId \in DownIds : CallGetBookText(r, bookId)
  \/ \E r \in Requests : CheckCache(r, OutcomeFor(r))
  \/ \E r \in Requests : TextCacheGet(r, OutcomeFor(r))
  \/ \E r \in Requests, http \in HttpOutcomes : HttpGet(r, http)
  \/ \E r \in Requests : TextCacheSet(r, OutcomeFor(r))
  \/ \E r \in Requests, m \in ModelResponses :
       ModelReturns(r, m.raw, m.payload)
  \/ \E r \in Requests, thrown \in ModelErrors : ModelThrows(r, thrown)
  \/ \E r \in Requests : StoreAnalysis(r, OutcomeFor(r))
  \/ Tick

SpecDown == InitFetch /\ [][NextDown]_vars

\* The routes together, with a working store and providers that answer.
AdminIds == {Null, Str(<<"1">>), Str(<<" ", "1">>), Str(<<"2">>)}
AdminHttpOutcomes ==
  {[kind |-> "response", status |-> "200", data |-> PaddedText],
   [kind |-> "axiosError", status |-> "404", code |-> "ERR_BAD_REQUEST",
    message |-> <<"Request failed with status code 404">>]}
\* Most outbound calls counted.
MaxCalls == 2

NextAdmin ==
  \/ \E r \in Requests, bookId \in AdminIds : ArriveAnalyze(r, bookId)
  \/ \E r \in Requests, action \in {"status", "clear", "none"}, bookId \in AdminIds :
       ArriveCache(r, action, bookId)
  \/ \E r \in Requests, bookId \in AdminIds : ArriveDelete(r, bookId)
  \/ \E r \in Requests : CheckCache(r, "ok")
  \/ \E r \in Requests :
       fetchCalls < MaxCalls /\ llmCalls < MaxCalls /\ TextCacheGet(r, "ok")
  \/ \E r \in Requests, http \in AdminHttpOutcomes : HttpGet(r, http)
  \/ \E r \in Requests : llmCalls < MaxCalls /\ TextCacheSet(r, "ok")
  \/ \E r \in Requests : ModelReturns(r, BareObject, FullPayload)
  \/ \E r \in Requests : StoreAnalysis(r, "ok")
  \/ \E r \in Requests : StatusText(r, "ok")
  \/ \E r \in Requests : StatusAnalysis(r, "ok")
  \/ \E r \in Requests : ClearText(r, "ok")
  \/ \E r \in Requests : ClearAnalysis(r, "ok")
  \/ \E r \in Requests : Recycle(r)

SpecAdmin == InitFetch /\ [][NextAdmin]_vars

\* -------------------------------------------------------------- chat route

\* chat route lines 4-29 and gutenberg.ts lines 20-30: POST /api/chat
\* arrives with body, the outcome of request.json(): the parsed value, or
\* the error it rejects with. The handler checks the two members,
\* constructs the services and the agent, and getBookText runs up to its
\* read of the text entry. Taking the members of a null body throws (line
\* 7; the message is the one of V8).
ArriveChat(r, body) ==
  /\ req[r].pc = "idle"
  /\ LET messages == Get(body, "messages")
         bookId == Get(body, "bookId")
         q == [req[r] EXCEPT !.kind = "chatRoute"]
         Answer(response) ==
           req' = [req EXCEPT ![r] = [q EXCEPT !.pc = "done",
                                               !.response = response]]
     IN IF IsThrow(body) THEN Answer(ChatErrorResponse(body))
        ELSE IF IsNullish(body)
        THEN Answer(ChatErrorResponse(Throw(
               <<"Cannot destructure property 'messages' of 'body' as it is null.">>)))
        ELSE IF messages.t /= "array"
        THEN Answer(Response(400, ErrorBody(<<"Messages array is required">>)))
        ELSE IF ~Truthy(bookId) \/ bookId.t /= "string"
        THEN Answer(Response(400, ErrorBody(<<"Book ID is required">>)))
        ELSE IF ~env.groq THEN Answer(ChatErrorResponse(Throw(GroqEnvError)))
        ELSE IF ~env.redis THEN Answer(ChatErrorResponse(Throw(RedisEnvError)))
        ELSE IF InvalidBookId(bookId)
        THEN Answer(ChatErrorResponse(Throw(<<"Invalid book ID provided">>)))
        ELSE req' = [req EXCEPT ![r] = [q EXCEPT !.pc = "textCacheGet",
                                                !.bookId = bookId,
                                                !.messages = messages.a]]
  /\ UNCHANGED <<env, store, clock, fetchCalls, llmCalls, lastOp>>

\* Bodies of POST /api/chat: no JSON, null, a member missing or of the
\* wrong type, and well-formed ones.
ChatBodies ==
  {Throw(<<"Unexpected token 'i', \"invalid json\" is not valid JSON">>),
   Null,
   Obj([bookId |-> Str(<<"1">>)]),
   Obj([messages |-> Str(<<"not an array">>), bookId |-> Str(<<"1">>)]),
   Obj([messages |-> Arr(<<>>)]),
   Obj([messages |-> Arr(<<>>), bookId |-> Num(123)])}
  \cup {Obj([messages |-> Arr(l), bookId |-> id]) :
          l \in MessageLists(1),
          id \in {Str(<<"1">>), Str(<<" ", "1">>), Str(<<" ">>)}}

NextChat ==
  \/ \E r \in Requests, body \in ChatBodies : ArriveChat(r, body)
  \/ \E r \in Requests, outcome \in StoreOutcomes : TextCacheGet(r, outcome)
  \/ \E r \in Requests,
        http \in AdminHttpOutcomes
                  \cup {[kind |-> "rejected",
                         thrown |-> Throw(<<"Unexpected error">>)]} :
       HttpGet(r, http)
  \/ \E r \in Requests, outcome \in StoreOutcomes : TextCacheSet(r, outcome)
  \/ \E r \in Requests, text \in LLMReplies : LLMAnswers(r, text)
  \/ \E r \in Requests, thrown \in ModelErrors :
       LLMFails(r, CallLLMError(thrown))
  \/ \E key \in DOMAIN store : Expire(key)

\* The chat route over GutenbergService, BookChatAgent and GroqLLMService.
SpecChat == Init /\ [][NextChat]_vars

\* ----------------------------------------------- CacheService on its own

CacheKeys ==
  {generateBookKey(<<"1">>), generateAnalysisKey(<<"1">>),
   generateBookKey(<<"2">>)}

CallGet(key, outcome) ==
  /\ lastOp' = CacheOp("get", outcome, CacheGet(store, key, outcome))
  /\ UNCHANGED <<env, store, clock, req, fetchCalls, llmCalls>>

CallSet(key, value, ttl, outcome) ==
  LET set == CacheSet(store, key, value, ttl, outcome)
  IN /\ store' = set.store
     /\ lastOp' = [op |-> "set", raised |-> Raises(outcome),
                   result |-> set.ret, key |-> key, value |-> value,
                   ttl |-> ttl]
     /\ UNCHANGED <<env, clock, req, fetchCalls, llmCalls>>

CallDelete(key, outcome) ==
  LET del == CacheDelete(store, key, outcome)
  IN /\ store' = del.store
     /\ lastOp' = CacheOp("delete", outcome, del.ret)
     /\ UNCHANGED <<env, clock, req, fetchCalls, llmCalls>>

CallExists(key, outcome) ==
  /\ lastOp' = CacheOp("exists", outcome, CacheExists(store, key, outcome))
  /\ UNCHANGED <<env, store, clock, req, fetchCalls, llmCalls>>

InitCache ==
  /\ env = [redis |-> TRUE, groq |-> TRUE]
  /\ store = [k \in {} |-> Undef]
  /\ clock = 0
  /\ req = [r \in Requests |-> IdleRequest]
  /\ fetchCalls = 0
  /\ llmCalls = 0
  /\ lastOp = NoOp

NextCache ==
  \/ \E key \in CacheKeys, outcome \in StoreOutcomes : CallGet(key, outcome)
  \/ \E key \in CacheKeys,
        value \in {PaddedText, Obj([bookId |-> Str(<<"1">>), title |-> Undef])},
        ttl \in {Undef, Num(3600), Num(0)},
        outcome \in StoreOutcomes : CallSet(key, value, ttl, outcome)
  \/ \E key \in CacheKeys, outcome \in StoreOutcomes :
       CallDelete(key, outcome)
  \/ \E key \in CacheKeys, outcome \in StoreOutcomes :
       CallExists(key, outcome)
  \/ \E key \in DOMAIN store : Expire(key)

SpecCache == InitCache /\ [][NextCache]_vars

\* -------------------------------------------------------------- properties

Done(r) == req[r].pc = "done"
\* The request ran the miss path to its end and answered with its result.
CompletedMiss(r) ==
  /\ Done(r) /\ ~req[r].hit
  /\ req[r].result /= Undef
  /\ req[r].response = Response(200, req[r].result)
\* The model answered the request.
ModelAnswered(r) == req[r].payload /= Undef
\* The object recovered from the model's answer (a throw when none is).
Recovered(r) == ParseAnalysis(req[r].raw, req[r].payload)

\* C1: a request answered from the analysis cache returns exactly the
\* response, timestamp included, of a request for the same identifier
\* that ran the miss path and stored its result.
C1_Idempotent ==
  \A r2 \in Requests :
    (Done(r2) /\ req[r2].hit) =>
      \E r1 \in Requests :
        /\ CompletedMiss(r1)
        /\ req[r1].bookId = req[r2].bookId
        /\ req[r2].response = req[r1].response
C1_Witness ==
  \E r1, r2 \in Requests :
    /\ CompletedMiss(r1)
    /\ Done(r2) /\ req[r2].hit
    /\ req[r1].bookId = req[r2].bookId
    /\ Get(req[r2].response.body, "timestamp") = req[r1].result.o.timestamp
    /\ clock > req[r1].result.o.timestamp.ms

\* C2: the step that answers a request from the analysis cache returns
\* the stored entry as it is and leaves the store and the counts of
\* outbound calls unchanged; no text was fetched and no result computed.
C2_HitFrame ==
  [][\A r \in Requests :
       (req[r].pc = "checkCache" /\ req'[r].pc = "done" /\ req'[r].hit) =>
         /\ store' = store
         /\ fetchCalls' = fetchCalls
         /\ llmCalls' = llmCalls
         /\ generateAnalysisKey(req[r].bookId.s) \in DOMAIN store
         /\ req'[r].response =
              Response(200, store[generateAnalysisKey(req[r].bookId.s)].value)
         /\ req'[r].bookText = Undef
         /\ req'[r].result = Undef]_vars
C2_Witness ==
  \E r \in Requests :
    /\ Done(r) /\ req[r].hit
    /\ generateAnalysisKey(req[r].bookId.s) \in DOMAIN store
    /\ fetchCalls = 1 /\ llmCalls = 1

\* The analysis of the result the request produced.
Analysis(r) == Get(req[r].result, "analysis")
\* The request produced a result (the transformation returned).
Produced(r) == req[r].result /= Undef

\* C3: whenever a JSON object is recovered from the model's answer, the
\* result carries title, author, characterRelationships, keyCharacters,
\* themes, summary, wordCount and keyEvents, each of its declared type
\* (text, text, list, list, list, text, number, list).
C3_SchemaComplete ==
  \A r \in Requests :
    (ModelAnswered(r) /\ ~IsThrow(Recovered(r))) =>
      /\ Produced(r)
      /\ Get(req[r].result, "title").t = "string"
      /\ Get(req[r].result, "author").t = "string"
      /\ Get(Analysis(r), "characterRelationships").t = "array"
      /\ Get(Analysis(r), "keyCharacters").t = "array"
      /\ Get(Analysis(r), "themes").t = "array"
      /\ Get(Analysis(r), "summary").t = "string"
      /\ Get(Analysis(r), "wordCount").t = "number"
      /\ Get(Analysis(r), "keyEvents").t = "array"
\* The empty object is recovered and a result produced without keyEvents.
C3_Witness ==
  \E r \in Requests :
    /\ ModelAnswered(r) /\ Recovered(r) = EmptyObject
    /\ Produced(r)
    /\ Get(Analysis(r), "keyEvents") = Undef

\* C4: the request fails as unparsable exactly when no JSON object is
\* recovered from the model's answer, and whenever one is recovered a
\* result is produced and nothing else fails.
C4_OnlyUnparsable ==
  \A r \in Requests :
    ModelAnswered(r) =>
      /\ (req[r].response = UnparsableResponse) <=> IsThrow(Recovered(r))
      /\ ~IsThrow(Recovered(r)) => Produced(r)
\* An object is recovered and the request fails all the same.
C4_Witness ==
  \E r \in Requests :
    /\ ModelAnswered(r) /\ Recovered(r) = BadPayload
    /\ Done(r) /\ ~Produced(r)
    /\ req[r].response.status = 500
    /\ req[r].response /= UnparsableResponse

\* The members the transformation reads from the recovered object, and the
\* ones the prompt asks the model for besides.
ExpectedKeys ==
  {"title", "author", "characters", "themes", "plot_summary", "key_events"}

\* C5: a recovered object with none of the expected members is no error:
\* every list of the result (characterRelationships, keyCharacters,
\* themes, keyEvents) is empty, its summary is "No summary available",
\* its author "Unknown Author" and its wordCount the count computed from
\* the source text.
C5_Defaults ==
  \A r \in Requests :
    (/\ ModelAnswered(r) /\ ~IsThrow(Recovered(r))
     /\ DOMAIN Recovered(r).o \cap ExpectedKeys = {}) =>
      /\ Produced(r)
      /\ Get(Analysis(r), "characterRelationships") = Arr(<<>>)
      /\ Get(Analysis(r), "keyCharacters") = Arr(<<>>)
      /\ Get(Analysis(r), "themes") = Arr(<<>>)
      /\ Get(Analysis(r), "keyEvents") = Arr(<<>>)
      /\ Get(Analysis(r), "summary") = Str(<<"No summary available">>)
      /\ Get(req[r].result, "author") = Str(<<"Unknown Author">>)
      /\ Get(Analysis(r), "wordCount") =
           Num(SplitLength(req[r].bookText.runs))
      /\ Done(r) => req[r].response = Response(200, req[r].result)
\* The model answered "{}" and the request ended with status 200: the
\* three lists the code produces are empty, the summary is the
\* placeholder, and the analysis holds no keyEvents.
C5_Witness ==
  \E r \in Requests :
    /\ ModelAnswered(r) /\ Recovered(r) = EmptyObject
    /\ Done(r) /\ req[r].response.status = 200
    /\ LET analysis == Get(req[r].response.body, "analysis")
       IN /\ Get(analysis, "summary") = Str(<<"No summary available">>)
          /\ Get(analysis, "characterRelationships") = Arr(<<>>)
          /\ Get(analysis, "keyCharacters") = Arr(<<>>)
          /\ Get(analysis, "themes") = Arr(<<>>)
          /\ "keyEvents" \notin DOMAIN analysis.o

\* C6: for the well-formed object with every expected member, the result
\* reproduces title, author, characters, themes, plot summary and key
\* events unchanged.
C6_RoundTrip ==
  \A r \in Requests :
    (ModelAnswered(r) /\ Recovered(r) = FullPayload /\ Produced(r)) =>
      /\ Get(req[r].result, "title") = Get(FullPayload, "title")
      /\ Get(req[r].result, "author") = Get(FullPayload, "author")
      /\ Get(Analysis(r), "themes") = Get(FullPayload, "themes")
      /\ Get(Analysis(r), "summary") = Get(FullPayload, "plot_summary")
      /\ Get(Analysis(r), "keyEvents") = Get(FullPayload, "key_events")
      /\ Len(Get(Analysis(r), "keyCharacters").a) =
           Len(Get(FullPayload, "characters").a)
      /\ \A i \in 1..Len(Get(FullPayload, "characters").a) :
           Get(Get(Analysis(r), "keyCharacters").a[i], "description") =
             Get(Get(FullPayload, "characters").a[i], "description")
\* The well-formed object went through and its title was replaced.
C6_Witness ==
  \E r \in Requests :
    /\ ModelAnswered(r) /\ Recovered(r) = FullPayload /\ Produced(r)
    /\ Get(req[r].result, "title") = Str(<<"Book ID: ", "1">>)

\* The number of relationships a character declares.
RelCount(character) ==
  IF IsNullish(Get(character, "relationships")) THEN 0
  ELSE Len(Get(character, "relationships").a)
\* The number of relationships declared by the characters before the i-th.
RECURSIVE RelsBefore(_, _)
RelsBefore(characters, i) ==
  IF i <= 1 THEN 0
  ELSE RelsBefore(characters, i - 1) + RelCount(characters[i - 1])

\* C7: characterRelationships holds, in order, exactly one entry per
\* declared relationship of every character: the character's name, the
\* relationship's target and description, and the strength "moderate";
\* a character without a list contributes none and a target naming no
\* listed character is kept.
C7_Flattening ==
  \A r \in Requests :
    (ModelAnswered(r) /\ Produced(r)) =>
      LET characters == Get(Recovered(r), "characters")
          entries == Get(Analysis(r), "characterRelationships")
      IN /\ entries.t = "array"
         /\ IF IsNullish(characters) THEN entries.a = <<>>
            ELSE /\ Len(entries.a) =
                      RelsBefore(characters.a, Len(characters.a) + 1)
                 /\ \A i \in 1..Len(characters.a) :
                      \A j \in 1..RelCount(characters.a[i]) :
                        entries.a[RelsBefore(characters.a, i) + j] =
                          Obj([character1 |-> Get(characters.a[i], "name"),
                               character2 |->
                                 Get(Get(characters.a[i],
                                         "relationships").a[j], "target"),
                               relationship |->
                                 Get(Get(characters.a[i],
                                         "relationships").a[j],
                                     "description"),
                               strength |-> Str(<<"moderate">>)])
\* Two characters: the first declares two relationships, one of them to
\* a name that is no listed character, and the second has no list.
C7_Witness ==
  \E r \in Requests :
    /\ ModelAnswered(r) /\ Produced(r)
    /\ Get(Recovered(r), "characters").t = "array"
    /\ Len(Get(Recovered(r), "characters").a) = 2
    /\ RelCount(Get(Recovered(r), "characters").a[1]) = 2
    /\ Get(Get(Recovered(r), "characters").a[2], "relationships") = Undef
    /\ Len(Get(Analysis(r), "characterRelationships").a) = 2
    /\ Get(Get(Analysis(r), "characterRelationships").a[2], "character2")
         = Str(<<"Z">>)

\* The number of whitespace-delimited tokens of a text: its maximal runs
\* of characters that are not whitespace.
TokenCount(runs) ==
  Cardinality({i \in 1..Len(runs) : ~IsSpace(runs[i].c)})

\* C8: the wordCount of every result produced is the number of
\* whitespace-delimited tokens of the fetched text, whatever word count
\* the model's answer carries.
C8_WordCount ==
  \A r \in Requests :
    Produced(r) =>
      Get(Analysis(r), "wordCount") = Num(TokenCount(req[r].bookText.runs))
\* A text with whitespace at both ends is counted above its tokens.
C8_Witness ==
  \E r \in Requests :
    /\ Produced(r)
    /\ req[r].bookText = PaddedText
    /\ Get(Analysis(r), "wordCount") = Num(3)
    /\ TokenCount(req[r].bookText.runs) = 1

\* C9: every key the store holds is "book:" + trim(id) + ":text" or
\* "book:" + trim(id) + ":analysis" for a requested identifier id, so
\* identifiers differing in surrounding whitespace share their entries.
C9_TrimmedKeys ==
  \A k \in DOMAIN store :
    \E p \in BookIdParams :
      /\ p.t = "string"
      /\ k \in {<<"book:">> \o Trim(p.s) \o <<":text">>,
                <<"book:">> \o Trim(p.s) \o <<":analysis">>}
\* The entries of one book under a trimmed and an untrimmed key.
C9_Witness ==
  /\ <<"book:", "1", ":text">> \in DOMAIN store
  /\ <<"book:", " ", "1", ":analysis">> \in DOMAIN store

\* C10: no operation of CacheService lets a failure of the store through:
\* when the store call raises, get returns null and set, delete and
\* exists return false.
C10_NeverRaises ==
  /\ ~IsThrow(lastOp.result)
  /\ lastOp.raised =>
       lastOp.result = (IF lastOp.op = "get" THEN Null ELSE Bool(FALSE))
C10_Witness ==
  /\ lastOp.op = "get" /\ lastOp.raised
  /\ lastOp.result = Null
  /\ store /= [k \in {} |-> Undef]

\* The two requests were given the same inputs: the same call, the same
\* provider text and, when the model was reached, the same answer.
SameInputs(r1, r2) ==
  /\ req[r1].kind = req[r2].kind
  /\ req[r1].bookId = req[r2].bookId
  /\ req[r1].data /= Undef /\ req[r1].data = req[r2].data
  /\ req[r1].raw = req[r2].raw /\ req[r1].payload = req[r2].payload
  /\ ModelAnswered(r1) \/ req[r1].kind = "fetchText"

\* C11: a request served while every cache command fails never hits, is
\* not failed by the failed stores, and ends exactly as a request with the
\* same inputs that missed a working cache: the same text, the same
\* analysis, the same status and, stamped at the same time, the same body.
C11_DegradesToMiss ==
  /\ ~req[1].hit
  /\ \/ store = [k \in {} |-> Undef]
     \/ \E r \in Requests \ {1} : req[r].pc /= "idle"
  /\ (Done(1) /\ Produced(1) /\ req[1].kind = "analyze") =>
       req[1].response = Response(200, req[1].result)
  /\ \A r \in Requests \ {1} :
       (Done(1) /\ Done(r) /\ SameInputs(1, r)) =>
         /\ req[1].bookText = req[r].bookText
         /\ req[1].response = Undef <=> req[r].response = Undef
         /\ Produced(1) <=> Produced(r)
         /\ req[1].kind = "fetchText" =>
              req[1].result = req[r].result /\ ~IsThrow(req[1].result)
         /\ (req[1].kind = "analyze") =>
              /\ req[1].response.status = req[r].response.status
              /\ Analysis(1) = Analysis(r)
              /\ (Get(req[1].result, "timestamp")
                    = Get(req[r].result, "timestamp")) =>
                   req[1].response = req[r].response
\* Both requests analyzed the same book from the same answer at the same
\* time, one with every cache command failing, and both succeeded.
C11_Witness ==
  /\ Done(1) /\ Done(2) /\ SameInputs(1, 2)
  /\ req[1].kind = "analyze"
  /\ req[1].response.status = 200
  /\ req[1].response = req[2].response
  /\ generateAnalysisKey(req[1].bookId.s) \in DOMAIN store

\* The request has had its own call of the model issued.
CalledModel(r) ==
  req[r].pc \in {"callModel", "storeAnalysis"} \/ ModelAnswered(r)

\* C12: requests are not de-duplicated and the last write wins: a request
\* that finds no analysis entry goes on, every request that leaves the
\* text cache empty-handed issues its own fetch, every request that
\* reaches the model issues its own call, every store that changes the
\* cache leaves exactly the storing request's result under its key, and
\* an analysis entry is always the whole result of one request.
C12_LastWriteWins ==
  /\ [](/\ Cardinality({r \in Requests : CalledModel(r)}) <= llmCalls
        /\ \A k \in DOMAIN store :
             (k[Len(k)] = ":analysis") =>
               \E r \in Requests :
                 /\ Produced(r)
                 /\ k = generateAnalysisKey(req[r].bookId.s)
                 /\ store[k].value = Json(req[r].result))
  /\ [][\A r \in Requests :
          /\ (req[r].pc = "checkCache"
                /\ generateAnalysisKey(req[r].bookId.s) \notin DOMAIN store
                /\ req'[r].pc /= "checkCache") => ~req'[r].hit
          /\ (req[r].pc = "textCacheGet" /\ req'[r].pc = "httpGet") =>
               fetchCalls' = fetchCalls + 1
          /\ (req[r].pc /= "callModel" /\ req'[r].pc = "callModel") =>
               llmCalls' = llmCalls + 1
          /\ (req[r].pc = "storeAnalysis" /\ req'[r].pc = "done"
                /\ store' /= store) =>
               /\ generateAnalysisKey(req[r].bookId.s) \in DOMAIN store'
               /\ store'[generateAnalysisKey(req[r].bookId.s)].value
                    = Json(req[r].result)
               /\ \A k \in DOMAIN store' :
                    k /= generateAnalysisKey(req[r].bookId.s) =>
                      k \in DOMAIN store /\ store'[k] = store[k]]_vars
\* Two requests for one identifier both missed, both fetched, both called
\* the model and both stored; the entry is the later result and not the
\* earlier one.
C12_Witness ==
  /\ \A r \in Requests : Done(r) /\ ~req[r].hit /\ Produced(r)
  /\ req[1].bookId = req[2].bookId
  /\ req[1].data /= Undef /\ req[2].data /= Undef
  /\ fetchCalls = 2 /\ llmCalls = 2
  /\ Get(req[1].result, "timestamp").ms < Get(req[2].result, "timestamp").ms
  /\ generateAnalysisKey(req[1].bookId.s) \in DOMAIN store
  /\ store[generateAnalysisKey(req[1].bookId.s)].value = Json(req[2].result)
  /\ store[generateAnalysisKey(req[1].bookId.s)].value /= Json(req[1].result)

\* C13: a failure keeps its kind: a not-found or service-unavailable
\* response is given only for a failure of the text fetch, so the request
\* that receives one never obtained a text nor reached the model.
C13_OwnKind ==
  \A r \in Requests :
    (Done(r) /\ req[r].kind = "analyze" /\ req[r].response /= Undef
       /\ req[r].response.status \in {404, 503}) =>
      req[r].bookText = Undef /\ ~CalledModel(r)
\* The text was fetched, the model call failed, and the caller is told
\* that the book was not found.
C13_Witness ==
  \E r \in Requests :
    /\ Done(r) /\ req[r].bookText /= Undef /\ ~ModelAnswered(r)
    /\ llmCalls >= 1
    /\ req[r].response =
         Response(404, ErrorBody(<<"Book with ID ">> \o req[r].bookId.s
                                   \o <<" ", "not found">>))

\* C14: with the services configured, a missing, empty or blank
\* identifier is answered as a client input error, with status 400.
C14_InputError ==
  \A r \in Requests :
    (Done(r) /\ req[r].kind = "analyze" /\ InvalidBookId(req[r].bookId)
       /\ env.redis /\ env.groq) =>
      req[r].response.status = 400
\* A blank identifier passed the route's check, the analysis entry was
\* read, and getBookText's refusal was answered as a server error.
C14_Witness ==
  \E r \in Requests :
    /\ Done(r) /\ req[r].bookId = Str(<<" ">>)
    /\ req[r].response =
         Response(500, ErrorBody(<<"Invalid book ID provided">>))

\* The request got as far as the text provider and its fetch failed: it
\* was valid, the services were constructed, no cache answered it and it
\* holds no text.
FetchFailed(r) ==
  /\ Done(r) /\ req[r].kind = "analyze"
  /\ ~InvalidBookId(req[r].bookId)
  /\ env.redis /\ env.groq
  /\ ~req[r].hit /\ req[r].bookText = Undef
\* The response for a provider body that is empty or no text.
MalformedResponse ==
  Response(500,
           ErrorBody(<<"Invalid response format: expected text content">>))

\* C15: a failed text fetch that is neither a missing document nor a
\* malformed body (a timeout, a connection failure, another transport
\* failure, a non-success status) is answered service unavailable, 503.
C15_Unavailable ==
  \A r \in Requests :
    (FetchFailed(r) /\ req[r].response.status /= 404
       /\ req[r].response /= MalformedResponse) =>
      req[r].response.status = 503
\* The provider answered with a status other than 200 and the caller got
\* a server error carrying the status.
C15_Witness ==
  \E r \in Requests :
    /\ FetchFailed(r) /\ fetchCalls >= 1
    /\ req[r].response =
         Response(500, ErrorBody(<<"Failed to fetch book: HTTP ", "204">>))

\* The message m occurs in the message msg.
Contains(msg, m) ==
  \E i \in 1..Len(msg) :
    i + Len(m) - 1 <= Len(msg) /\ SubSeq(msg, i, i + Len(m) - 1) = m
\* The messages that come from the providers: the model provider's errors
\* and the transport errors of the text provider.
ProviderMessages ==
  {e.msg : e \in {x \in ModelErrors : IsError(x)}}
  \cup {http.message : http \in {h \in HttpOutcomes :
                                   h.kind = "axiosError"}}

\* C16: no error response carries text that came from a provider.
C16_NoProviderText ==
  \A r \in Requests :
    (Done(r) /\ req[r].kind = "analyze" /\ req[r].response.status /= 200) =>
      \A m \in ProviderMessages :
        ~Contains(Get(req[r].response.body, "error").s, m)
\* The model provider's message is in the body of a server error.
C16_Witness ==
  \E r \in Requests :
    /\ Done(r) /\ llmCalls >= 1
    /\ req[r].response =
         Response(500, ErrorBody(<<"Groq API error: ", "rate limit exceeded">>))

\* The request is a direct call of getBookText.
Fetching(r) == req[r].kind = "fetchText"
\* The identifier is absent, empty or made of whitespace only.
Blank(bookId) ==
  \/ IsNullish(bookId)
  \/ bookId.t = "string" /\ \A i \in 1..Len(bookId.s) : bookId.s[i] = " "
\* The identifier without its whitespace (no identifier here has any
\* inside it).
Stripped(id) == SelectSeq(id, LAMBDA c : c /= " ")

\* C17: getBookText given an absent, empty or blank identifier fails
\* with 'Invalid book ID provided' at once: the call never reaches the
\* cache read, the provider or the cache write, and it changes neither
\* the store nor the count of outbound requests.
C17_InvalidIdentifier ==
  /\ [](\A r \in Requests :
          (Fetching(r) /\ Blank(req[r].bookId)) =>
            /\ Done(r)
            /\ req[r].result = Throw(<<"Invalid book ID provided">>)
            /\ req[r].data = Undef /\ req[r].bookText = Undef)
  /\ [][\A r \in Requests :
          (req[r].pc = "idle" /\ Fetching(r)' /\ Blank(req'[r].bookId)) =>
            store' = store /\ fetchCalls' = fetchCalls]_vars
\* A blank identifier was refused after another call had filled the
\* cache.
C17_Witness ==
  \E r \in Requests :
    /\ Fetching(r) /\ req[r].bookId = Str(<<" ", " ">>)
    /\ req[r].result = Throw(<<"Invalid book ID provided">>)
    /\ store /= [k \in {} |-> Undef] /\ fetchCalls = 1

\* C18: an outbound request is issued only by a call that has read the
\* cache and found nothing; a call that leaves the cache read with a text
\* found it under "book:" + trimmed identifier + ":text", returns that
\* entry unchanged and changes neither the store nor the count of
\* outbound requests.
C18_CacheFirst ==
  [][/\ fetchCalls' /= fetchCalls =>
          \E r \in Requests :
            req[r].pc = "textCacheGet" /\ req'[r].pc = "httpGet"
     /\ \A r \in Requests :
          (Fetching(r) /\ req[r].pc = "textCacheGet" /\ req'[r].pc = "done") =>
            /\ <<"book:">> \o Stripped(req[r].bookId.s) \o <<":text">>
                 \in DOMAIN store
            /\ req'[r].result =
                 store[<<"book:">> \o Stripped(req[r].bookId.s)
                         \o <<":text">>].value
            /\ store' = store /\ fetchCalls' = fetchCalls]_vars
\* A call with a padded identifier returned the text another call had
\* fetched and stored for the bare identifier.
C18_Witness ==
  \E r1, r2 \in Requests :
    /\ Fetching(r1) /\ Done(r1) /\ req[r1].bookId = Str(<<"1">>)
    /\ req[r1].data /= Undef
    /\ Fetching(r2) /\ Done(r2) /\ req[r2].bookId = Str(<<" ", "1">>)
    /\ req[r2].data = Undef /\ req[r2].result = req[r1].result
    /\ fetchCalls = 1

\* The i-th character of a text.
RECURSIVE CharAt(_, _)
CharAt(runs, i) ==
  IF i <= Head(runs).n THEN Head(runs).c
  ELSE CharAt(Tail(runs), i - Head(runs).n)
\* The call fetched the provider's text and returned a text.
FetchedLive(r) ==
  Fetching(r) /\ Done(r) /\ req[r].data /= Undef /\ ~IsThrow(req[r].result)

\* C19: a call that fetched the provider's text returns it unchanged when
\* it has at most 5000 characters, and otherwise its first 5000 characters
\* followed by "...", 5003 characters in all.
C19_Truncation ==
  \A r \in Requests :
    FetchedLive(r) =>
      LET data == req[r].data.runs
          text == req[r].result.runs
      IN /\ TextLen(text) <= 5003
         /\ TextLen(data) <= 5000 => text = data
         /\ TextLen(data) > 5000 =>
              /\ TextLen(text) = 5003
              /\ \A i \in 1..5000 : CharAt(text, i) = CharAt(data, i)
              /\ \A i \in 5001..5003 : CharAt(text, i) = "."
\* A text of 5001 characters came back as 5003, one of 5000 as it was.
C19_Witness ==
  /\ FetchedLive(1) /\ TextLen(req[1].data.runs) = 5001
  /\ TextLen(req[1].result.runs) = 5003
  /\ FetchedLive(2) /\ TextLen(req[2].data.runs) = 5000
  /\ req[2].result = req[2].data

\* The call returned a text it found in the cache.
FetchedCached(r) ==
  Fetching(r) /\ Done(r) /\ req[r].data = Undef /\ ~IsThrow(req[r].result)

\* C20: the text a call stores is the text it returns, every text entry
\* has at most 5003 characters, and a call answered from the cache
\* returns what a call that fetched for the same identifier returned.
C20_StoredIsReturned ==
  /\ [](/\ \A k \in DOMAIN store :
             (k[Len(k)] = ":text") => TextLen(store[k].value.runs) <= 5003
        /\ \A r2 \in Requests :
             FetchedCached(r2) =>
               \E r1 \in Requests :
                 /\ FetchedLive(r1)
                 /\ Stripped(req[r1].bookId.s) = Stripped(req[r2].bookId.s)
                 /\ req[r2].result = req[r1].result)
  /\ [][\A r \in Requests :
          (Fetching(r) /\ req[r].pc = "textCacheSet" /\ req'[r].pc = "done"
             /\ store' /= store) =>
            store'[<<"book:">> \o Stripped(req[r].bookId.s)
                     \o <<":text">>].value = req'[r].result]_vars
\* A text longer than the maximum was fetched, stored cut, and returned
\* from the cache to a second call as the first call had returned it.
C20_Witness ==
  \E r1, r2 \in Requests :
    /\ FetchedLive(r1) /\ TextLen(req[r1].data.runs) > 5000
    /\ FetchedCached(r2) /\ req[r2].result = req[r1].result
    /\ TextLen(req[r2].result.runs) = 5003
    /\ <<"book:", "1", ":text">> \in DOMAIN store

\* The direct call asked the provider and failed.
FetchThrew(r) ==
  Fetching(r) /\ Done(r) /\ req[r].http /= Undef /\ IsThrow(req[r].result)

\* C21: a call of getBookText that asked the provider and got an outcome
\* of the provider (a response, or a failure of the transport, which
\* axios reports as an axios error) fails exactly when the provider did
\* not answer 200 with a non-empty text, and then with the one message
\* of the outcome: not found for a 404, the timeout
\* message for ECONNABORTED, the connection message for ENOTFOUND and
\* ECONNREFUSED, "Network error: " and the original message for any
\* other transport error, "Failed to fetch book: HTTP " and the status
\* for an accepted status other than 200, and the format message for an
\* empty or non-text body.
C21_FailureKinds ==
  \A r \in Requests :
    (Fetching(r) /\ Done(r) /\ req[r].http /= Undef
       /\ req[r].http.kind \in {"response", "axiosError"}) =>
      LET h == req[r].http
          id == req[r].bookId.s
          thrown == req[r].result
      IN IF h.kind = "axiosError"
         THEN thrown = Throw(
                IF h.status = "404"
                THEN <<"Book with ID ">> \o id \o <<" ", "not found">>
                ELSE IF h.code = "ECONNABORTED"
                THEN <<"Request ", "timeout", ": Unable to fetch book text">>
                ELSE IF h.code = "ENOTFOUND" \/ h.code = "ECONNREFUSED"
                THEN <<"Network error",
                       ": Unable to connect to Project Gutenberg">>
                ELSE <<"Network error", ": ">> \o h.message)
         ELSE IF h.status /= "200"
         THEN thrown = Throw(<<"Failed to fetch book: HTTP ", h.status>>)
         ELSE IF h.data.t /= "text" \/ h.data.runs = <<>>
         THEN thrown =
                Throw(<<"Invalid response format: expected text content">>)
         ELSE ~IsThrow(thrown)
\* One call met a reset connection and failed with the original message;
\* another met a 404 and failed with not found.
C21_Witness ==
  \E r1, r2 \in Requests :
    /\ FetchThrew(r1) /\ req[r1].http.kind = "axiosError"
    /\ req[r1].http.code = "ECONNRESET"
    /\ req[r1].result = Throw(<<"Network error", ": ", "socket hang up">>)
    /\ FetchThrew(r2) /\ req[r2].http.kind = "axiosError"
    /\ req[r2].http.status = "404"
    /\ req[r2].result =
         Throw(<<"Book with ID ">> \o req[r2].bookId.s \o <<" ", "not found">>)

\* The key is that of an analysis entry, or of a text entry.
IsAnalysisKey(k) == k[Len(k)] = ":analysis"
IsTextKey(k) == k[Len(k)] = ":text"

\* C22: an analysis entry is stored without an expiration: it carries no
\* time to live, unlike a text entry.
C22_NoExpiration ==
  \A k \in DOMAIN store : IsAnalysisKey(k) => ~(store[k].ttl > 0)
\* An analysis entry and a text entry both held for 604800 seconds.
C22_Witness ==
  \E k1, k2 \in DOMAIN store :
    /\ IsAnalysisKey(k1) /\ store[k1].ttl = 604800
    /\ IsTextKey(k2) /\ store[k2].ttl = 604800

\* The entries getAnalysis(id) reads and writes: the text under the
\* trimmed identifier, the analysis under the identifier as given.
TextEntryOf(bookId) == <<"book:">> \o Stripped(bookId.s) \o <<":text">>
AnalysisEntryOf(bookId) == <<"book:">> \o bookId.s \o <<":analysis">>

\* C23: status reports the existence of the text entry and of the
\* analysis entry of its identifier, as getAnalysis wrote them; clear
\* deletes these two entries and nothing else.
C23_StatusAndClear ==
  [][\A r \in Requests :
       /\ (req[r].pc = "statusText" /\ req'[r].pc = "statusAnalysis") =>
            req'[r].bookExists =
              Bool(TextEntryOf(req[r].bookId) \in DOMAIN store)
       /\ (req[r].pc = "statusAnalysis" /\ req'[r].pc = "done") =>
            /\ Get(req'[r].response.body, "bookTextCached") =
                 req[r].bookExists
            /\ Get(req'[r].response.body, "analysisCached") =
                 Bool(AnalysisEntryOf(req[r].bookId) \in DOMAIN store)
            /\ store' = store
       /\ (req[r].pc = "clearText" /\ req'[r].pc = "clearAnalysis") =>
            store' = Without(store, {TextEntryOf(req[r].bookId)})
       /\ (req[r].pc = "clearAnalysis" /\ req'[r].pc = "done") =>
            store' = Without(store, {AnalysisEntryOf(req[r].bookId)})]_vars
\* After one analysis of " 1" fetched the text and called the model,
\* status of " 1" answers that the analysis is cached and the text is
\* not, while the store holds both entries that analysis wrote.
C23_Witness ==
  \E r \in Requests :
    /\ Done(r) /\ req[r].kind = "status"
    /\ req[r].bookId = Str(<<" ", "1">>)
    /\ req[r].response.status = 200
    /\ Get(req[r].response.body, "bookTextCached") = Bool(FALSE)
    /\ Get(req[r].response.body, "analysisCached") = Bool(TRUE)
    /\ TextEntryOf(req[r].bookId) \in DOMAIN store
    /\ AnalysisEntryOf(req[r].bookId) \in DOMAIN store
    /\ \A o \in Requests \ {r} : req[o].pc = "idle"
    /\ fetchCalls = 1 /\ llmCalls = 1

\* C30: the analysis, the fetch of a text, status and clear address one
\* text key and one analysis key per identifier: an analysis stored
\* under the key of an identifier names that identifier, the entries an
\* analysis writes are those clear removes, and status looks where the
\* analysis wrote.
C30_SameKeys ==
  /\ [](\A k \in DOMAIN store :
          IsAnalysisKey(k) =>
            Get(store[k].value, "bookId") = Str(SubSeq(k, 2, Len(k) - 1)))
  /\ [][\A r \in Requests :
          /\ (req[r].pc = "textCacheSet" /\ req'[r].pc /= "textCacheSet") =>
               TextEntryOf(req[r].bookId) \in DOMAIN store'
          /\ (req[r].pc = "storeAnalysis" /\ req'[r].pc = "done") =>
               AnalysisEntryOf(req[r].bookId) \in DOMAIN store'
          /\ (req[r].pc = "clearText" /\ req'[r].pc = "clearAnalysis") =>
               TextEntryOf(req[r].bookId) \notin DOMAIN store'
          /\ (req[r].pc = "clearAnalysis" /\ req'[r].pc = "done") =>
               AnalysisEntryOf(req[r].bookId) \notin DOMAIN store'
          /\ (req[r].pc = "statusText" /\ req'[r].pc = "statusAnalysis"
                /\ TextEntryOf(req[r].bookId) \in DOMAIN store) =>
               req'[r].bookExists = Bool(TRUE)]_vars
\* After the one analysis of " 1", clear of " 1" has answered and the
\* text that analysis stored is still held.
C30_Witness ==
  \E r \in Requests :
    /\ Done(r) /\ req[r].kind = "clear"
    /\ req[r].bookId = Str(<<" ", "1">>)
    /\ req[r].response.status = 200
    /\ DOMAIN store = {TextEntryOf(req[r].bookId)}
    /\ \A o \in Requests \ {r} : req[o].pc = "idle"
    /\ fetchCalls = 1 /\ llmCalls = 1

\* C24: an entry is written only by set, with the value given and
\* with the caller's ttl when one was supplied, the default of 604800
\* seconds otherwise; set returns true exactly when the store answered
\* the write without an error.
C24_SetTTL ==
  /\ [](lastOp.op = "set" => lastOp.result = Bool(~lastOp.raised))
  /\ [][\A k \in DOMAIN store' :
          (k \notin DOMAIN store \/ store'[k] /= store[k]) =>
            /\ lastOp'.op = "set" /\ lastOp'.key = k
            /\ store'[k].value = Json(lastOp'.value)
            /\ store'[k].ttl = (IF lastOp'.ttl = Undef THEN 604800
                                ELSE lastOp'.ttl.n)]_vars
\* set was called with a ttl of 0 and returned true; the entry is held
\* for the default 604800 seconds.
C24_Witness ==
  /\ lastOp.op = "set" /\ lastOp.ttl = Num(0)
  /\ lastOp.result = Bool(TRUE)
  /\ lastOp.key \in DOMAIN store
  /\ store[lastOp.key] = [value |-> Json(lastOp.value), ttl |-> 604800]

\* The request is a call of chat.
Chatting(r) == req[r].kind = "chat"

\* C25: chat calls the service once per call, with the system prompt
\* first and then the caller's messages in their order, unchanged; it
\* returns the string of the service, or fails with the error of the
\* service, unchanged.
C25_ChatPassesThrough ==
  /\ [](/\ llmCalls = Cardinality({r \in Requests : Chatting(r)})
        /\ \A r \in Requests :
             Chatting(r) =>
               /\ Len(req[r].sent) = Len(req[r].messages) + 1
               /\ req[r].sent[1] =
                    [role |-> "system", content |-> Str(SystemPrompt)]
               /\ \A i \in 1..Len(req[r].messages) :
                    req[r].sent[i + 1] = req[r].messages[i]
               /\ Done(r) => req[r].result = req[r].data)
  /\ [][\A r \in Requests :
          /\ Chatting(r) =>
               /\ req'[r].sent = req[r].sent
               /\ req'[r].messages = req[r].messages
          /\ (Chatting(r) /\ req'[r].pc /= req[r].pc) =>
               llmCalls' = llmCalls]_vars
\* One call with two different messages returned the reply of the
\* service; another with no message failed with the error of the service.
C25_Witness ==
  \E r1, r2 \in Requests :
    /\ Chatting(r1) /\ Done(r1)
    /\ Len(req[r1].messages) = 2
    /\ req[r1].messages[1] /= req[r1].messages[2]
    /\ req[r1].result = Str(<<"2+2 equals 4.">>)
    /\ Chatting(r2) /\ Done(r2)
    /\ req[r2].messages = <<>>
    /\ Len(req[r2].sent) = 1
    /\ req[r2].result = Throw(<<"LLM service error">>)

\* The place of a step in the order of the route.
StepRank(pc) ==
  CASE pc = "idle" -> 0
    [] pc = "checkCache" -> 1
    [] pc = "textCacheGet" -> 2
    [] pc = "httpGet" -> 3
    [] pc = "textCacheSet" -> 4
    [] pc = "callModel" -> 5
    [] pc = "storeAnalysis" -> 6
    [] pc = "done" -> 7

\* C26: on a miss the route fetches the text, calls the model, normalizes,
\* stores and returns, in this order, each step starting with the outcome
\* of the one before; a request asks the provider at most once and the
\* model at most once, and a completed miss called the model exactly once.
C26_OneCallEachInOrder ==
  /\ [](\A r \in Requests :
          /\ req[r].pc \in {"callModel", "storeAnalysis"} =>
               req[r].bookText /= Undef
          /\ req[r].pc = "storeAnalysis" =>
               ModelAnswered(r) /\ req[r].result /= Undef
          /\ CompletedMiss(r) =>
               /\ req[r].bookText /= Undef /\ ModelAnswered(r)
               /\ req[r].result =
                    AnalysisResult(Recovered(r), req[r].bookId,
                                   req[r].bookText,
                                   req[r].result.o.timestamp.ms))
  /\ [][/\ \A r \in Requests :
            req'[r].pc /= req[r].pc =>
              /\ StepRank(req'[r].pc) > StepRank(req[r].pc)
              /\ req'[r].pc = "httpGet" => req[r].pc = "textCacheGet"
              /\ req'[r].pc = "callModel" =>
                   req[r].pc \in {"textCacheGet", "textCacheSet"}
              /\ req'[r].pc = "storeAnalysis" => req[r].pc = "callModel"
              /\ (req'[r].pc = "done" /\ req'[r].response.status = 200
                    /\ ~req'[r].hit) => req[r].pc = "storeAnalysis"
      /\ fetchCalls' - fetchCalls =
           Cardinality({r \in Requests :
                          req[r].pc /= "httpGet" /\ req'[r].pc = "httpGet"})
      /\ llmCalls' - llmCalls =
           Cardinality({r \in Requests :
                          req[r].pc /= "callModel"
                            /\ req'[r].pc = "callModel"})]_vars
\* A miss fetched the text from the provider, called the model and
\* returned its result: one request to the provider and one call of the
\* model were made in all.
C26_Witness ==
  \E r \in Requests :
    /\ CompletedMiss(r) /\ req[r].http /= Undef
    /\ \A o \in Requests \ {r} : req[o].pc = "idle"
    /\ fetchCalls = 1 /\ llmCalls = 1

\* The positions of the first "{" token and of the last "}" token of a
\* raw response (0 when there is none), and the span between them.
FirstOpen(raw) ==
  IF \E i \in 1..Len(raw) : raw[i] = "{"
  THEN CHOOSE i \in 1..Len(raw) :
         raw[i] = "{" /\ \A j \in 1..(i - 1) : raw[j] /= "{"
  ELSE 0
LastClose(raw) ==
  IF \E i \in 1..Len(raw) : raw[i] = "}"
  THEN CHOOSE i \in 1..Len(raw) :
         raw[i] = "}" /\ \A j \in (i + 1)..Len(raw) : raw[j] /= "}"
  ELSE 0
Span(raw) == SubSeq(raw, FirstOpen(raw), LastClose(raw))
\* The text is one JSON object: braces around the members, written once
\* or not at all, and JSON whitespace.
IsObjectText(s) ==
  /\ Len(s) >= 2 /\ s[1] = "{" /\ s[Len(s)] = "}"
  /\ \A i \in 2..(Len(s) - 1) : s[i] \in {"M", "W"}
  /\ \A i, j \in 2..(Len(s) - 1) : (s[i] = "M" /\ s[j] = "M") => i = j
\* The raw response is one object between a leading marker, with or
\* without a language tag and whitespace after it, and a trailing
\* marker, with or without whitespace before it.
IsFenced(raw) ==
  /\ Len(raw) >= 4 /\ raw[1] = "F" /\ raw[Len(raw)] = "F"
  /\ FirstOpen(raw) > 0 /\ IsObjectText(Span(raw))
  /\ \E t \in 1..(FirstOpen(raw) - 1) :
       /\ \A k \in 2..t : raw[k] \in {"J", "P"}
       /\ \A k \in (t + 1)..(FirstOpen(raw) - 1) : raw[k] \in {"W", "N"}
  /\ \A k \in (LastClose(raw) + 1)..(Len(raw) - 1) : raw[k] \in {"W", "N"}
\* The outcome of the request is that of the normalization of `parsed`.
OutcomeOf(r, parsed) ==
  IF IsThrow(parsed)
  THEN ~Produced(r) /\ req[r].response = UnparsableResponse
  ELSE LET expected == AnalysisResult(parsed, req[r].bookId,
                                      req[r].bookText, clock)
       IN IF IsThrow(expected)
          THEN /\ ~Produced(r)
               /\ req[r].response =
                    ErrorResponse(expected.msg, req[r].bookId)
          ELSE req[r].result = expected
\* The response with one leading marker, and the tag json after it, and
\* one trailing marker taken off, each with the whitespace next to it.
SingleStrip(raw, payload) ==
  LET t == TrimRaw(Effective(raw, payload))
      untagged == IF StartsWith(t, <<"F", "J">>) THEN Drop(t, 2)
                  ELSE Drop(t, 1)
      a == IF StartsWith(t, <<"F">>) THEN StripLeadingWs(untagged) ELSE t
  IN IF EndsWith(a, <<"F">>) THEN StripTrailingWs(DropLast(a, 1)) ELSE a
\* The object read after a single strip, or else by the extraction.
SingleStripParse(raw, payload) ==
  LET c == SingleStrip(raw, payload)
      direct == IF StartsWith(c, <<"{">>) /\ EndsWith(c, <<"}">>)
                THEN JsonParse(c, payload)
                ELSE Throw(<<"SyntaxError">>)
  IN IF IsThrow(direct) THEN ExtractParse(raw, payload) ELSE direct

\* The trimmed response starts with a marker tagged json and a second
\* marker follows it, with nothing but whitespace between.
DoubleFenced(raw, payload) ==
  LET t == TrimRaw(Effective(raw, payload))
  IN StartsWith(t, <<"F", "J">>)
     /\ StartsWith(StripLeadingWs(Drop(t, 2)), <<"F">>)
\* The response with the marker tagged json, the marker after it and one
\* trailing marker taken off, each with the whitespace next to it.
DoubleStrip(raw, payload) ==
  LET t == TrimRaw(Effective(raw, payload))
      a == StripLeadingWs(Drop(StripLeadingWs(Drop(t, 2)), 1))
  IN IF EndsWith(a, <<"F">>) THEN StripTrailingWs(DropLast(a, 1)) ELSE a
\* The markers among the first n tokens of s, and among the last n.
LeadingMarkers(s, n) == Cardinality({i \in 1..n : s[i] = "F"})
TrailingMarkers(s, n) ==
  Cardinality({i \in (Len(s) - n + 1)..Len(s) : s[i] = "F"})

\* C27 as stated: a response that is one object between a leading marker,
\* tagged or not, and a trailing marker has the outcome of the bare
\* object; and from every response exactly one leading and one trailing
\* marker are taken off, never more: the cleaned text is the response
\* after a single strip.
C27_SingleStripOnly ==
  \A r \in Requests :
    ModelAnswered(r) =>
      /\ IsFenced(req[r].raw) =>
           /\ OutcomeOf(r, JsonParse(Span(req[r].raw), req[r].payload))
           /\ ~IsThrow(JsonParse(Span(req[r].raw), req[r].payload))
      /\ CleanResponse(Effective(req[r].raw, req[r].payload)) =
           SingleStrip(req[r].raw, req[r].payload)

\* C27, amended: a response that is one object between a leading marker,
\* tagged or not, and a trailing marker has the outcome of the bare
\* object. The cleaned text is the response after a single strip (one
\* leading and one trailing marker at most), except when the response
\* starts with a marker tagged json directly followed by a second marker:
\* then the second leading marker is taken off as well. Never more than
\* two leading markers and one trailing marker are taken off, and the
\* outcome is in every case that of the single strip.
C27_FencedAsBare ==
  \A r \in Requests :
    ModelAnswered(r) =>
      LET raw == req[r].raw
          payload == req[r].payload
          t == TrimRaw(Effective(raw, payload))
          cleaned == CleanResponse(Effective(raw, payload))
      IN /\ IsFenced(raw) =>
              /\ OutcomeOf(r, JsonParse(Span(raw), payload))
              /\ ~IsThrow(JsonParse(Span(raw), payload))
         /\ cleaned = IF DoubleFenced(raw, payload)
                      THEN DoubleStrip(raw, payload)
                      ELSE SingleStrip(raw, payload)
         /\ \E i, j \in 0..Len(t) :
              /\ i + j <= Len(t)
              /\ cleaned = SubSeq(t, i + 1, Len(t) - j)
              /\ LeadingMarkers(t, i) <= 2
              /\ LeadingMarkers(t, i) = 2 => DoubleFenced(raw, payload)
              /\ TrailingMarkers(t, j) <= 1
         /\ OutcomeOf(r, SingleStripParse(raw, payload))
\* A fenced object without a tag lost one marker on each side and gave
\* the result of the bare object.
C27_Witness ==
  \E r \in Requests :
    /\ ModelAnswered(r) /\ Done(r)
    /\ req[r].raw = <<"F", "{", "M", "}", "F">>
    /\ req[r].payload = FullPayload
    /\ CleanResponse(req[r].raw) = <<"{", "M", "}">>
    /\ Produced(r)
    /\ req[r].result =
         AnalysisResult(FullPayload, req[r].bookId, req[r].bookText, clock)
    /\ req[r].response = Response(200, req[r].result)

\* The raw response is one object with prose that holds no brace and no
\* marker before it, after it or both.
IsProseWrapped(raw) ==
  /\ FirstOpen(raw) > 0 /\ IsObjectText(Span(raw))
  /\ \A k \in 1..Len(raw) :
       (k < FirstOpen(raw) \/ k > LastClose(raw)) =>
         raw[k] \in {"P", "W", "N"}
  /\ \E k \in 1..Len(raw) : raw[k] = "P"
\* The parse of the raw response from its first "{" to its last "}",
\* the braces of the members text counted: the text between a "{" and a
\* "}" of the response itself, the nested object when both braces lie in
\* one members text, no JSON when a brace cuts a members text; a failure
\* when no "}" follows a "{".
SpanParse(raw, payload) ==
  LET text == Effective(raw, payload)
      holds == {i \in 1..Len(text) :
                  text[i] \in {"{", "}"}
                    \/ (text[i] = "M" /\ HasBraces(payload))}
      opens == {i \in holds : text[i] /= "}"}
      closes == {i \in holds : text[i] /= "{"}
      first == CHOOSE i \in opens : \A j \in opens : i <= j
      last == CHOOSE i \in closes : \A j \in closes : j <= i
  IN IF opens = {} \/ closes = {}
     THEN Throw(<<"No JSON object found in response">>)
     ELSE IF first > last
     THEN Throw(<<"No JSON object found in response">>)
     ELSE IF first = last THEN InnerParse(payload)
     ELSE IF text[first] = "{" /\ text[last] = "}"
     THEN JsonParse(SubSeq(text, first, last), payload)
     ELSE Throw(<<"SyntaxError">>)

\* C28: when the direct attempt gives an object the outcome is that of
\* this object; when it fails the outcome is that of parsing the raw
\* response from its first "{" to its last "}", a failure when there is
\* no such span; an object within prose has the outcome of the object
\* alone.
C28_ExtractionFallback ==
  \A r \in Requests :
    ModelAnswered(r) =>
      LET raw == req[r].raw
          payload == req[r].payload
          direct == DirectParse(raw, payload)
          extracted == SpanParse(raw, payload)
      IN /\ ~IsThrow(direct) => OutcomeOf(r, direct)
         /\ IsThrow(direct) => OutcomeOf(r, extracted)
         /\ IsProseWrapped(raw) =>
              /\ IsThrow(direct) /\ ~IsThrow(extracted)
              /\ extracted = JsonParse(Span(raw), payload)
              /\ OutcomeOf(r, ParseAnalysis(Span(raw), payload))
\* An object between two prose characters gave the result of the object.
C28_Witness ==
  \E r \in Requests :
    /\ ModelAnswered(r) /\ Done(r)
    /\ req[r].raw = <<"P", "{", "M", "}", "P">>
    /\ req[r].payload = FullPayload
    /\ IsThrow(DirectParse(req[r].raw, req[r].payload))
    /\ req[r].result =
         AnalysisResult(FullPayload, req[r].bookId, req[r].bookText, clock)
    /\ req[r].response = Response(200, req[r].result)

\* The request has just ended in a failure.
EndsInFailure(r) ==
  /\ req[r].pc /= "done" /\ req'[r].pc = "done"
  /\ IF req'[r].kind = "fetchText" THEN IsThrow(req'[r].result)
     ELSE req'[r].response.status /= 200
\* The step writes the entry of the key: adds it or changes it.
Writes(k) ==
  k \in DOMAIN store' /\ (k \notin DOMAIN store \/ store'[k] /= store[k])

\* C29: the step on which a request ends in a failure leaves the store
\* as it was; an analysis entry is written only by the step on which a
\* miss returns its result, a text entry only by a request whose fetch
\* of the text succeeded; so every entry held is the result of a request
\* that returned it, or the text a fetch obtained.
C29_OnlySuccessWrites ==
  /\ [](\A k \in DOMAIN store :
          /\ IsAnalysisKey(k) =>
               \E r \in Requests :
                 /\ CompletedMiss(r)
                 /\ k = AnalysisEntryOf(req[r].bookId)
                 /\ store[k].value = Json(req[r].result)
          /\ IsTextKey(k) =>
               \E r \in Requests :
                 /\ req[r].http /= Undef /\ req[r].http.kind = "response"
                 /\ req[r].bookText /= Undef
                 /\ req[r].pc /= "textCacheSet"
                 /\ k = TextEntryOf(req[r].bookId)
                 /\ store[k].value = req[r].bookText)
  /\ [][/\ \A r \in Requests : EndsInFailure(r) => store' = store
        /\ \A k \in DOMAIN store' :
             Writes(k) =>
               \E r \in Requests :
                 IF IsAnalysisKey(k)
                 THEN /\ req[r].pc = "storeAnalysis" /\ CompletedMiss(r)'
                      /\ k = AnalysisEntryOf(req[r].bookId)
                 ELSE /\ req[r].pc = "textCacheSet"
                      /\ req'[r].pc \in {"callModel", "done"}
                      /\ ~EndsInFailure(r)
                      /\ k = TextEntryOf(req[r].bookId)]_vars
\* One request failed at the model call and another on an unparsable
\* answer, after their texts were fetched; the store holds the text and
\* no analysis.
C29_Witness ==
  \E r1, r2 \in Requests :
    /\ Done(r1) /\ req[r1].bookText /= Undef /\ ~ModelAnswered(r1)
    /\ req[r1].response.status = 500
    /\ Done(r2) /\ ModelAnswered(r2) /\ IsThrow(Recovered(r2))
    /\ req[r2].response = UnparsableResponse
    /\ \E k \in DOMAIN store : IsTextKey(k)
    /\ \A k \in DOMAIN store : ~IsAnalysisKey(k)

====
